---- MODULE Spec2Model ----
(***************************************************************************)
(* Model of the benefits assistant's command engine and pipeline:          *)
(*   - EnhancedFirebaseService (src/src/ai/enhanced-firebase-service.ts):  *)
(*     parseQueryParams, fetchAllBenefitsData (snapshot cache),            *)
(*     executeCommands (command batch runner);                             *)
(*   - MultiModelHandler and GeminiAdapter (src/src/ai/elevenlab.ts):      *)
(*     processMessage (three-stage pipeline).                              *)
(* JavaScript strings are TLA+ strings; Len, SubSeq and \o act on them.    *)
(***************************************************************************)
EXTENDS Integers, Sequences, FiniteSets, TLC

VARIABLES
    isConnected,     \* EnhancedFirebaseService.isConnected
    cachedData,      \* EnhancedFirebaseService.cachedData (Null or a heap array)
    lastDataFetch,   \* EnhancedFirebaseService.lastDataFetch
    db,              \* the remote store: path -> Null or a collection
    now,             \* Date.now()
    started,         \* cache accesses begun so far (race specification)
    nextId,          \* identity given to the next array the service allocates
    handler,         \* which orchestrator app.ts constructed
    pc,              \* position of the one pipeline flow
    geminiResponse,  \* Stage 1 result
    commands,        \* argument of the running executeCommands
    idx,             \* loop position of executeCommands (1-based)
    results,         \* the results array of the running executeCommands
    trace,           \* per-iteration log of executeCommands (history)
    invoked,         \* history: the stages and model calls invoked so far
    response,        \* <<>> while running, <<text>> once processMessage returned
    call,            \* concurrent callers of fetchAllBenefitsData: caller -> frame
    pending,         \* store requests in flight (concurrent cache specification)
    log              \* completed cache accesses (history)

vars == <<isConnected, cachedData, lastDataFetch, db, now, started, nextId, handler,
          pc, geminiResponse, commands, idx, results, trace, invoked,
          response, call, pending, log>>

serviceVars  == <<cachedData, lastDataFetch, nextId>>
pipelineVars == <<handler, pc, geminiResponse, commands, idx, results,
                  trace, invoked, response>>
callerVars   == <<call, pending, log>>

----------------------------------------------------------------------------
(* Bounds of the model.                                                    *)

MaxBatch == 2       \* longest command list Stage 1 hands to the runner
NumCallers == 2     \* concurrent callers of the snapshot cache
MaxAccesses == 3    \* cache accesses in one behaviour
MaxFilters == 2     \* filter clauses in one read command
MaxCalls == 2       \* Stage 1 simulations in one behaviour
MaxRecords == 2     \* most records the store holds for the analytics commands

(* Program constants.                                                      *)

cacheTTL == 300000

----------------------------------------------------------------------------
(* JavaScript values.                                                      *)

Null == [t |-> "null"]
JsStr(s) == [t |-> "string", v |-> s]
JsNum(n) == [t |-> "number", v |-> n]
JsBool(b) == [t |-> "boolean", v |-> b]
JsArr(items) == [t |-> "array", v |-> items]
JsObj(fields) == [t |-> "object", v |-> fields]
NaN == [t |-> "NaN"]

\* An optional property of an object: <<>> when absent, <<value>> when set.
Absent == <<>>
Set(x) == <<x>>
IsSet(opt) == Len(opt) = 1

StrictEq(a, b) == a.t = b.t /\ a.t # "NaN" /\ (a.t = "null" \/ a.v = b.v)

----------------------------------------------------------------------------
(* String primitives.                                                       *)

Char(s, i) == SubSeq(s, i, i)

StartsWith(s, prefix) ==
    Len(s) >= Len(prefix) /\ SubSeq(s, 1, Len(prefix)) = prefix

\* First index >= i of s whose character satisfies inSet (membership in
\* chars when want, non-membership otherwise); Len(s) + 1 when none.
IndexFrom(s, i, chars, want) ==
    LET hits == {k \in i..Len(s) : (Char(s, k) \in chars) = want}
    IN  IF hits = {} THEN Len(s) + 1
        ELSE CHOOSE k \in hits : \A h \in hits : k <= h

\* String.prototype.split with a one-character separator.
RECURSIVE Split(_, _)
Split(s, sep) ==
    LET j == IndexFrom(s, 1, {sep}, TRUE)
    IN  IF j > Len(s) THEN <<s>>
        ELSE <<SubSeq(s, 1, j - 1)>> \o Split(SubSeq(s, j + 1, Len(s)), sep)

\* String.prototype.trim over the blank character.
TrimLeft(s) == SubSeq(s, IndexFrom(s, 1, {" "}, FALSE), Len(s))

TrimRight(s) ==
    LET kept == {k \in 1..Len(s) : Char(s, k) # " "}
    IN  IF kept = {} THEN ""
        ELSE SubSeq(s, 1, CHOOSE k \in kept : \A h \in kept : h <= k)

Trim(s) == TrimRight(TrimLeft(s))

Digits == <<"0", "1", "2", "3", "4", "5", "6", "7", "8", "9">>
DigitSet == {Digits[i] : i \in 1..Len(Digits)}
DigitVal(c) == (CHOOSE i \in 1..Len(Digits) : Digits[i] = c) - 1

RECURSIVE DecimalValue(_)
DecimalValue(s) ==
    IF Len(s) = 0 THEN 0
    ELSE 10 * DecimalValue(SubSeq(s, 1, Len(s) - 1)) + DigitVal(Char(s, Len(s)))

\* Number(str) for the strings of the model: blank is 0, a run of decimal
\* digits is its value, everything else is NaN.  (Signs, fractions,
\* exponents and radix prefixes do not occur in the modelled strings.)
ToNumberStr(s) ==
    LET body == Trim(s)
    IN  IF Len(body) = 0 THEN JsNum(0)
        ELSE IF IndexFrom(body, 1, DigitSet, FALSE) > Len(body)
             THEN JsNum(DecimalValue(body))
        ELSE NaN

\* String(n) for a natural number.
RECURSIVE NumberText(_)
NumberText(n) ==
    IF n < 10 THEN Digits[n + 1]
    ELSE NumberText(n \div 10) \o Digits[(n % 10) + 1]

----------------------------------------------------------------------------
(* parseQueryParams                                                         *)

OperatorChars == {"<", ">", "=", "!"}

\* param.match(/([^<>=!]+)([<>=!]{1,2})(.+)/): <<>> when there is no match,
\* else <<[field, operator, valueStr]>>.  The leftmost match starts at the
\* first non-operator character; group 1 is the whole run up to the next
\* operator character; group 2 takes two operator characters when something
\* is left for group 3, one otherwise.
OperatorMatch(param) ==
    LET p == IndexFrom(param, 1, OperatorChars, FALSE)
        j == IndexFrom(param, p + 1, OperatorChars, TRUE)
        n == Len(param)
        two == j + 2 <= n /\ Char(param, j + 1) \in OperatorChars
    IN  IF p > n \/ j >= n THEN <<>>
        ELSE <<[field    |-> SubSeq(param, p, j - 1),
                operator |-> IF two THEN SubSeq(param, j, j + 1) ELSE Char(param, j),
                valueStr |-> IF two THEN SubSeq(param, j + 2, n)
                                    ELSE SubSeq(param, j + 1, n)]>>

FirestoreOperator_AlwaysEquality(operator) == "=="

\* Lines 147-177.
FirestoreOperator(operator) ==
    CASE operator = "="  -> "=="
      [] operator = "<"  -> "<"
      [] operator = ">"  -> ">"
      [] operator = "<=" -> "<="
      [] operator = ">=" -> ">="
      [] operator = "!=" -> "!="
      [] OTHER           -> "=="

ConvertValue(valueStr) ==
    IF valueStr = "true" THEN JsBool(TRUE)
    ELSE IF valueStr = "false" THEN JsBool(FALSE)
    ELSE IF ToNumberStr(valueStr).t = "number" THEN ToNumberStr(valueStr)
    ELSE JsStr(valueStr)

ParseParam_DropsUnmatched(param) ==
    LET m == OperatorMatch(param)
    IN  IF m # <<>>
        THEN <<[field    |-> Trim(m[1].field),
                operator |-> FirestoreOperator(m[1].operator),
                value    |-> ConvertValue(m[1].valueStr)]>>
        ELSE <<>>

\* Lines 139-217: the filter made from one clause (none when the clause is
\* dropped).
ParseParam(param) ==
    LET m == OperatorMatch(param)
        parts == Split(param, "=")
    IN  IF m # <<>>
        THEN <<[field    |-> Trim(m[1].field),
                operator |-> FirestoreOperator(m[1].operator),
                value    |-> ConvertValue(m[1].valueStr)]>>
        ELSE IF Len(parts) = 2
        THEN <<[field    |-> Trim(parts[1]),
                operator |-> "==",
                value    |-> ConvertValue(parts[2])]>>
        ELSE <<>>

RECURSIVE ParseParams(_)
ParseParams(params) ==
    IF params = <<>> THEN <<>>
    ELSE ParseParam(Head(params)) \o ParseParams(Tail(params))

parseQueryParams(paramsString) ==
    IF paramsString = "" THEN <<>> ELSE ParseParams(Split(paramsString, ","))

----------------------------------------------------------------------------
(* The remote store (Record Store Client).                                  *)

\* The one collection the modelled store holds wherever it holds data:
\* store key and record, in key order.
SampleBenefits ==
    JsObj(<<
      [key |-> "b1", item |-> [Id_usuario       |-> JsStr("u1"),
                               Categoria        |-> JsStr("Comidas del Mundo"),
                               Mes_de_beneficio |-> JsStr("diciembre"),
                               Estado           |-> JsStr("Canjeado"),
                               Inversion        |-> JsNum(1000)]],
      [key |-> "b2", item |-> [Id_usuario       |-> JsStr("u2"),
                               Categoria        |-> JsStr("Bienestar"),
                               Mes_de_beneficio |-> JsStr("Diciembre"),
                               Estado           |-> JsStr("Pendiente")]],
      [key |-> "b3", item |-> [Id_usuario       |-> JsStr("u3"),
                               Mes_de_beneficio |-> JsStr("enero"),
                               Inversion        |-> JsStr("N/A")]]
    >>)

Paths == {"firestore", "realtime/firestore", "userBenefits", "realtime/userBenefits"}

\* The sets of paths that hold data in the stores the model starts from.
PopulatedChoices ==
    { {}, {"firestore"}, {"realtime/firestore"}, {"userBenefits"},
      {"realtime/userBenefits"}, {"userBenefits", "firestore"} }

StoreWith(populated) ==
    [p \in Paths |-> IF p \in populated THEN SampleBenefits ELSE Null]

\* The children of a collection node as the fields of one object.
ChildrenOf(collection) ==
    [k \in {collection.v[i].key : i \in DOMAIN collection.v} |->
        JsObj((CHOOSE e \in {collection.v[i] : i \in DOMAIN collection.v} :
                   e.key = k).item)]

\* The node "realtime" of the store: its populated children.
RealtimeNode ==
    [k \in {c \in {"firestore", "userBenefits"} : db["realtime/" \o c].t # "null"} |->
        db["realtime/" \o k]]

\* The whole database as seen from its root, keys in the store's order.
RootEntries ==
    (IF db["firestore"].t # "null"
     THEN <<[key |-> "firestore", item |-> ChildrenOf(db["firestore"])]>> ELSE <<>>)
    \o (IF DOMAIN RealtimeNode # {}
        THEN <<[key |-> "realtime", item |-> RealtimeNode]>> ELSE <<>>)
    \o (IF db["userBenefits"].t # "null"
        THEN <<[key |-> "userBenefits", item |-> ChildrenOf(db["userBenefits"])]>>
        ELSE <<>>)

\* ref(rtdb, undefined) is the root reference; it is written "" here.
RootPath == ""

\* snapshot.val() of get(ref(rtdb, path)); a path the store does not know
\* holds nothing.
SnapshotVal(path) ==
    IF path = RootPath
    THEN (IF RootEntries = <<>> THEN Null ELSE JsObj(RootEntries))
    ELSE IF path \in DOMAIN db THEN db[path] ELSE Null
SnapshotExists(path) == SnapshotVal(path).t # "null"

StoreErrorMessage == "PERMISSION_DENIED"

\* Sequential probing `for (const path of paths) { await get(...) }`:
\* the k-th get throws when k = failAt (failAt = 0: no get throws).
\* at = index of the first path that exists (0: none), calls = gets issued.
RECURSIVE ProbeFrom(_, _, _)
ProbeFrom(paths, k, failAt) ==
    IF k > Len(paths) THEN [threw |-> FALSE, at |-> 0, calls |-> Len(paths)]
    ELSE IF k = failAt THEN [threw |-> TRUE, at |-> 0, calls |-> k]
    ELSE IF SnapshotExists(paths[k]) THEN [threw |-> FALSE, at |-> k, calls |-> k]
    ELSE ProbeFrom(paths, k + 1, failAt)

Probe(paths, failAt) == ProbeFrom(paths, 1, failAt)

----------------------------------------------------------------------------
(* fetchAllBenefitsData: the snapshot cache.                                *)

\* An array allocated by the service: id is its object identity.
HeapArr(id, items) == [t |-> "array", id |-> id, v |-> items]

RECURSIVE ObjectValues(_)
ObjectValues(entries) ==
    IF entries = <<>> THEN <<>>
    ELSE <<Head(entries).item>> \o ObjectValues(Tail(entries))

\* Lines 1190-1192: an object becomes the array of its values.
ToArray(id, data) ==
    IF data.t = "array" THEN HeapArr(id, data.v) ELSE HeapArr(id, ObjectValues(data.v))

FetchPaths == <<"firestore", "realtime/firestore">>

NoDataMessage == "No se encontraron datos en ninguna ruta"

\* Line 1157: the condition under which the cached data is served.
CacheFresh_Inclusive(useCache, cached, fetchedAt, at) ==
    useCache /\ cached.t # "null" /\ (at - fetchedAt) <= cacheTTL

CacheFresh_Never(useCache, cached, fetchedAt, at) ==
    useCache /\ cached.t # "null" /\ (at - fetchedAt) > cacheTTL

CacheFresh(useCache, cached, fetchedAt, at) ==
    useCache /\ cached.t # "null" /\ (at - fetchedAt) < cacheTTL

\* The whole of fetchAllBenefitsData run without interleaving, from the
\* current state: what it returns or throws, and the cache it leaves.
FetchAll(useCache, failAt) ==
    IF CacheFresh(useCache, cachedData, lastDataFetch, now)
    THEN [threw |-> FALSE, storeThrew |-> FALSE, message |-> "",
          data |-> cachedData, calls |-> 0,
          cachedData |-> cachedData, lastDataFetch |-> lastDataFetch,
          nextId |-> nextId]
    ELSE LET pr == Probe(FetchPaths, failAt)
         IN  IF pr.threw \/ pr.at = 0
             THEN [threw |-> TRUE, storeThrew |-> pr.threw,
                   message |-> IF pr.threw THEN StoreErrorMessage ELSE NoDataMessage,
                   data |-> Null, calls |-> pr.calls,
                   cachedData |-> cachedData, lastDataFetch |-> lastDataFetch,
                   nextId |-> nextId]
             ELSE LET data == ToArray(nextId, SnapshotVal(FetchPaths[pr.at]))
                  IN  [threw |-> FALSE, storeThrew |-> FALSE, message |-> "",
                       data |-> data,
                       calls |-> pr.calls,
                       cachedData |-> data, lastDataFetch |-> now,
                       nextId |-> nextId + 1]

----------------------------------------------------------------------------
(* Record filtering of the query and count commands.                        *)

\* The characters of the modelled strings in code-unit order.
CodeOrder ==
    " !,/0123456789:<=>?ABCDEFGHIJKLMNOPQRSTUVWXYZ_abcdefghijklmnopqrstuvwxyz"

CharCode(c) == IndexFrom(CodeOrder, 1, {c}, TRUE)

UpperCase == "ABCDEFGHIJKLMNOPQRSTUVWXYZ"
LowerCase == "abcdefghijklmnopqrstuvwxyz"

UpperChars == {Char(UpperCase, i) : i \in 1..Len(UpperCase)}

LowerChar(c) == Char(LowerCase, IndexFrom(UpperCase, 1, {c}, TRUE))

\* String.prototype.toLowerCase: every upper-case letter is replaced.
RECURSIVE ToLowerCase(_)
ToLowerCase(s) ==
    LET u == IndexFrom(s, 1, UpperChars, TRUE)
    IN  IF u > Len(s) THEN s
        ELSE SubSeq(s, 1, u - 1) \o LowerChar(Char(s, u))
             \o ToLowerCase(SubSeq(s, u + 1, Len(s)))

\* a < b on strings: comparison by code units.
StringLess(a, b) ==
    LET shorter == IF Len(a) < Len(b) THEN Len(a) ELSE Len(b)
        differ == {k \in 1..shorter : Char(a, k) # Char(b, k)}
        d == CHOOSE k \in differ : \A h \in differ : k <= h
    IN  IF differ = {} THEN Len(a) < Len(b)
        ELSE CharCode(Char(a, d)) < CharCode(Char(b, d))

ToNumber(x) ==
    CASE x.t = "number"  -> x
      [] x.t = "boolean" -> JsNum(IF x.v THEN 1 ELSE 0)
      [] x.t = "string"  -> ToNumberStr(x.v)
      [] x.t = "null"    -> JsNum(0)
      [] OTHER           -> NaN

\* The abstract relational comparison a < b: "true", "false" or "undefined"
\* (an operand that converts to NaN).
JsLess(a, b) ==
    IF a.t = "string" /\ b.t = "string"
    THEN IF StringLess(a.v, b.v) THEN "true" ELSE "false"
    ELSE LET na == ToNumber(a)
             nb == ToNumber(b)
         IN  IF na.t = "NaN" \/ nb.t = "NaN" THEN "undefined"
             ELSE IF na.v < nb.v THEN "true" ELSE "false"

JsLt(a, b) == JsLess(a, b) = "true"
JsGt(a, b) == JsLess(b, a) = "true"
JsLe(a, b) == JsLess(b, a) = "false"
JsGe(a, b) == JsLess(a, b) = "false"

BothStrings(a, b) == a.t = "string" /\ b.t = "string"

FilterHolds_CaseSensitive(fieldValue, param) ==
    CASE param.operator = "==" -> StrictEq(fieldValue, param.value)
      [] param.operator = "!=" -> ~StrictEq(fieldValue, param.value)
      [] param.operator = "<"  -> ~JsGe(fieldValue, param.value)
      [] param.operator = "<=" -> ~JsGt(fieldValue, param.value)
      [] param.operator = ">"  -> ~JsLe(fieldValue, param.value)
      [] param.operator = ">=" -> ~JsLt(fieldValue, param.value)
      [] OTHER -> TRUE

\* Lines 1502-1548: one filter on a field value that is present.
FilterHolds(fieldValue, param) ==
    CASE param.operator = "==" ->
           IF BothStrings(fieldValue, param.value)
           THEN ToLowerCase(fieldValue.v) = ToLowerCase(param.value.v)
           ELSE StrictEq(fieldValue, param.value)
      [] param.operator = "!=" ->
           IF BothStrings(fieldValue, param.value)
           THEN ToLowerCase(fieldValue.v) # ToLowerCase(param.value.v)
           ELSE ~StrictEq(fieldValue, param.value)
      [] param.operator = "<"  -> ~JsGe(fieldValue, param.value)
      [] param.operator = "<=" -> ~JsGt(fieldValue, param.value)
      [] param.operator = ">"  -> ~JsLe(fieldValue, param.value)
      [] param.operator = ">=" -> ~JsLt(fieldValue, param.value)
      [] OTHER -> TRUE

Include_MissingFieldPasses(item, queryParams) ==
    \A k \in 1..Len(queryParams) :
        \/ queryParams[k].field \notin DOMAIN item
        \/ FilterHolds(item[queryParams[k].field], queryParams[k])

\* Lines 1489-1551: the include flag of one item.
Include(item, queryParams) ==
    \A k \in 1..Len(queryParams) :
        /\ queryParams[k].field \in DOMAIN item
        /\ FilterHolds(item[queryParams[k].field], queryParams[k])

\* Lines 1487-1559: the items kept, each with its store key.
RECURSIVE FilterEntries(_, _)
FilterEntries(entries, queryParams) ==
    IF entries = <<>> THEN <<>>
    ELSE (IF Include(Head(entries).item, queryParams)
          THEN <<Head(entries)>> ELSE <<>>)
         \o FilterEntries(Tail(entries), queryParams)

----------------------------------------------------------------------------
(* The analytics calculators.                                               *)

AnalyticsKinds ==
    {"month-progress", "redemption-rate", "historical-rate", "benefit-status",
     "active-users", "investment", "top-categories", "compare-december"}

\* The message prefix of each calculator's catch block.
ErrorPrefix(kind) ==
    CASE kind = "redemption-rate"  -> "Error al calcular tasa de canje: "
      [] kind = "historical-rate"  -> "Error al calcular tasa histórica: "
      [] kind = "benefit-status"   -> "Error al obtener estado de usuarios: "
      [] kind = "active-users"     -> "Error al obtener usuarios activos: "
      [] kind = "investment"       -> "Error al calcular inversión: "
      [] kind = "top-categories"   -> "Error al obtener top categorías: "
      [] kind = "compare-december" -> "Error al comparar diciembre: "
      [] OTHER -> ""

NoBenefitsMessage == "No se encontraron datos de beneficios"

Truthy(x) ==
    CASE x.t = "null"    -> FALSE
      [] x.t = "NaN"     -> FALSE
      [] x.t = "undefined" -> FALSE
      [] x.t = "boolean" -> x.v
      [] x.t = "number"  -> x.v # 0
      [] x.t = "string"  -> x.v # ""
      [] OTHER -> TRUE

\* `analysisParams.forEach(...)`: the last cache parameter decides useCache.
RECURSIVE UseCacheParam(_, _)
UseCacheParam(analysisParams, useCache) ==
    IF analysisParams = <<>> THEN useCache
    ELSE LET param == Head(analysisParams)
         IN  UseCacheParam(Tail(analysisParams),
                 IF param.field = "cache" /\ param.operator = "=="
                 THEN StrictEq(param.value, JsStr("true"))
                      \/ StrictEq(param.value, JsBool(TRUE))
                 ELSE useCache)

\* Same loop, for the month parameter (null when none is given).
RECURSIVE MonthParam(_, _)
MonthParam(analysisParams, month) ==
    IF analysisParams = <<>> THEN month
    ELSE LET param == Head(analysisParams)
         IN  MonthParam(Tail(analysisParams),
                 IF param.field = "month" /\ param.operator = "=="
                 THEN param.value ELSE month)

TakesMonth(kind) == kind \in {"benefit-status", "active-users", "investment"}

\* One calculator call: the value it returns (it never throws: its catch
\* block turns every exception into an {error} object) and the fetch it made.
\* The aggregate of a successful computation is kept as the number of
\* records it ran over and the month it was scoped to.
Calculator(kind, analysisParams, failAt) ==
    LET month == IF TakesMonth(kind) THEN MonthParam(analysisParams, Null) ELSE Null
        f == FetchAll(UseCacheParam(analysisParams, TRUE), failAt)
        badMonth == Truthy(month) /\ month.t # "string"
    IN  IF kind = "month-progress"
        THEN [value |-> JsObj([analysis |-> kind]), fetched |-> FALSE, f |-> f]
        ELSE [fetched |-> TRUE, f |-> f,
              value |->
                IF f.threw
                THEN JsObj([error |-> ErrorPrefix(kind) \o f.message])
                ELSE IF Len(f.data.v) = 0
                THEN JsObj([error |-> NoBenefitsMessage])
                ELSE IF badMonth
                THEN JsObj([error |-> ErrorPrefix(kind)
                                        \o "month.toLowerCase is not a function"])
                ELSE JsObj([analysis |-> kind, month |-> month,
                            records |-> Len(f.data.v)])]

----------------------------------------------------------------------------
(* executeCommands: one iteration of the loop over the command strings.     *)

NamespacePrefix == "firebase:"

ResultOf(command, value) == [command |-> command, result |-> Set(value), error |-> Absent]
ErrorOf_KeepsResult(command, message) ==
    [command |-> command, result |-> Set(Null), error |-> Set(message)]

ErrorOf(command, message) == [command |-> command, result |-> Absent, error |-> Set(message)]

HasPart(parts, i) == Len(parts) >= i
\* parts[i] as a template string renders it ("undefined" when missing).
PartText(parts, i) == IF HasPart(parts, i) THEN parts[i] ELSE "undefined"

\* `parts[3] ? this.parseQueryParams(parts[3]) : []`
ParamsOf(parts) ==
    IF HasPart(parts, 4) /\ parts[4] # "" THEN parseQueryParams(parts[4]) ELSE <<>>

\* parts[i] given to ref(): a missing part is undefined, the root reference.
PartRef(parts, i) == IF HasPart(parts, i) THEN parts[i] ELSE RootPath

CountPaths_DirectFirst(basePath) == <<basePath, "realtime/" \o basePath, "firestore">>

QueryPaths(path) == <<"realtime/" \o path, path, "firestore">>
CountPaths(basePath) == <<"realtime/" \o basePath, basePath, "firestore">>

\* The paths with the command's own path part: the template string renders
\* a missing part as "undefined", ref() takes it as the root.
PathsOf(paths, parts) == [paths EXCEPT ![2] = PartRef(parts, 3)]

\* {...item, id: key}
Enrich(entry) ==
    [f \in (DOMAIN entry.item) \cup {"id"} |->
        IF f = "id" THEN JsStr(entry.key) ELSE entry.item[f]]

RECURSIVE EnrichAll(_)
EnrichAll(entries) ==
    IF entries = <<>> THEN <<>>
    ELSE <<Enrich(Head(entries))>> \o EnrichAll(Tail(entries))

\* What one iteration leaves: the results it pushed, which catch block (if
\* any) of executeCommands ran, whether a store call threw, and the cache.
Outcome(pushed, caught, storeThrew, f) ==
    [pushed |-> pushed, caught |-> caught, storeThrew |-> storeThrew,
     cachedData |-> f.cachedData, lastDataFetch |-> f.lastDataFetch,
     nextId |-> f.nextId]

CacheKept ==
    [cachedData |-> cachedData, lastDataFetch |-> lastDataFetch, nextId |-> nextId]

\* Lines 1271-1433.
AnalyticsOutcome(command, parts, failAt) ==
    LET analysisType == PartText(parts, 3)
        c == Calculator(analysisType, ParamsOf(parts), failAt)
    IN  IF analysisType \in AnalyticsKinds
        THEN Outcome(<<ResultOf(command, c.value)>>, "none",
                     c.fetched /\ c.f.storeThrew,
                     IF c.fetched THEN c.f ELSE CacheKept)
        ELSE Outcome(<<ErrorOf(command, "Tipo de análisis desconocido: "
                                          \o analysisType)>>,
                     "none", FALSE, CacheKept)

\* Lines 1439-1463; a store failure reaches the catch block of the loop
\* (lines 1929-1939).
GetOutcome(command, parts, failAt) ==
    LET path == PartRef(parts, 3)
        pr == Probe(<<path>>, failAt)
    IN  IF pr.threw
        THEN Outcome(<<ErrorOf(command, StoreErrorMessage)>>, "outer", TRUE, CacheKept)
        ELSE Outcome(<<ResultOf(command, SnapshotVal(path))>>, "none", FALSE, CacheKept)

\* Lines 1465-1761.
QueryOutcome(command, parts, failAt) ==
    LET paths == PathsOf(QueryPaths(PartText(parts, 3)), parts)
        queryParams == ParamsOf(parts)
        pr == Probe(paths, failAt)
    IN  IF pr.threw
        THEN Outcome(<<ErrorOf(command, "Error al consultar datos: "
                                          \o StoreErrorMessage)>>,
                     "inner", TRUE, CacheKept)
        ELSE IF pr.at = 0
        THEN Outcome(<<ResultOf(command, JsArr(<<>>))>>, "none", FALSE, CacheKept)
        ELSE Outcome(<<ResultOf(command,
                         JsArr(EnrichAll(FilterEntries(SnapshotVal(paths[pr.at]).v,
                                                       queryParams))))>>,
                     "none", FALSE, CacheKept)

\* Lines 1763-1892.
CountOutcome(command, parts, failAt) ==
    LET paths == PathsOf(CountPaths(PartText(parts, 3)), parts)
        queryParams == ParamsOf(parts)
        pr == Probe(paths, failAt)
    IN  IF pr.threw
        THEN Outcome(<<ErrorOf(command, "Error al contar datos: "
                                          \o StoreErrorMessage)>>,
                     "inner", TRUE, CacheKept)
        ELSE IF pr.at = 0
        THEN Outcome(<<ResultOf(command, JsObj([count |-> 0]))>>, "none", FALSE,
                     CacheKept)
        ELSE Outcome(<<ResultOf(command,
                         JsObj([count |-> Len(FilterEntries(
                                    SnapshotVal(paths[pr.at]).v, queryParams))]))>>,
                     "none", FALSE, CacheKept)

\* Lines 1259-1928: the dispatch on the operation of a prefixed command.
PrefixedOutcome(command, failAt) ==
    LET parts == Split(command, ":")
        operation == parts[2]
    IN       CASE operation = "analytics" -> AnalyticsOutcome(command, parts, failAt)
               [] operation = "get"       -> GetOutcome(command, parts, failAt)
               [] operation = "query"     -> QueryOutcome(command, parts, failAt)
               [] operation = "count"     -> CountOutcome(command, parts, failAt)
               [] operation = "set" ->
                    Outcome(<<ErrorOf(command,
                              "Operación set no implementada completamente")>>,
                            "none", FALSE, CacheKept)
               [] operation = "update" ->
                    Outcome(<<ErrorOf(command,
                              "Operación update no implementada completamente")>>,
                            "none", FALSE, CacheKept)
               [] OTHER ->
                    Outcome(<<ErrorOf(command, "Operación desconocida: "
                                                 \o operation)>>,
                            "none", FALSE, CacheKept)

CommandOutcome_ReportsSkipped(command, failAt) ==
    IF ~StartsWith(command, NamespacePrefix)
    THEN Outcome(<<ErrorOf(command, "Operación desconocida: ")>>, "none", FALSE,
                 CacheKept)
    ELSE PrefixedOutcome(command, failAt)

\* Lines 1254-1939: the iteration for one command string.
CommandOutcome(command, failAt) ==
    IF ~StartsWith(command, NamespacePrefix)
    THEN Outcome(<<>>, "none", FALSE, CacheKept)
    ELSE PrefixedOutcome(command, failAt)

\* The most store calls one command makes: the three probed paths.
FailPoints == 0..Len(QueryPaths(""))

ConnectionError ==
    [command |-> "firebase:connection", result |-> Absent,
     error |-> Set("Firebase no está conectado")]

----------------------------------------------------------------------------
(* Inputs.                                                                  *)

\* The command strings Stage 1 may hand to the runner.
CommandAlphabet ==
    { "hola",
      "firebase:analytics:investment:month=diciembre",
      "firebase:analytics:benefit-status:cache=false",
      "firebase:analytics:forecast",
      "firebase:get:userBenefits",
      "firebase:query:userBenefits:Categoria=comidas del mundo,Mes_de_beneficio=diciembre",
      "firebase:count:userBenefits:Mes_de_beneficio=diciembre",
      "firebase:set:userBenefits/b1:Estado=Canjeado",
      "firebase:update:userBenefits/b1:Estado=Canjeado",
      "firebase:delete:userBenefits/b1" }

RECURSIVE SeqsUpTo(_, _)
SeqsUpTo(S, n) ==
    IF n = 0 THEN {<<>>}
    ELSE LET shorter == SeqsUpTo(S, n - 1)
         IN  shorter \cup {Append(q, x) : q \in shorter, x \in S}

Batches == SeqsUpTo(CommandAlphabet, MaxBatch)

Handlers == {"MultiModelHandler", "GeminiAdapter"}

----------------------------------------------------------------------------
(* executeCommands as steps of the pipeline flow.                           *)

OperationOf(command) == Split(command, ":")[2]
Prefixed(command) == StartsWith(command, NamespacePrefix)

\* Lines 1232-1252: the guards before the loop.
ExecuteCommands ==
    /\ pc = "stage2"
    /\ commands' = geminiResponse.commands
    /\ trace' = <<>>
    /\ invoked' = Append(invoked, "executeCommands")
    /\ IF ~isConnected
       THEN results' = <<ConnectionError>> /\ idx' = 0 /\ pc' = "stage2done"
       ELSE IF Len(geminiResponse.commands) = 0
       THEN results' = <<>> /\ idx' = 0 /\ pc' = "stage2done"
       ELSE results' = <<>> /\ idx' = 1 /\ pc' = "loop"
    /\ UNCHANGED <<isConnected, serviceVars, db, now, started, handler,
                   geminiResponse, response, callerVars>>

\* The outcomes one command can have, over the store calls that may throw.
Outcomes(command) == {CommandOutcome(command, failAt) : failAt \in FailPoints}

AtCommand == pc = "loop" /\ idx <= Len(commands)

AfterIteration_AbortsOnException(caught) ==
    IF caught # "none" \/ idx + 1 > Len(commands) THEN "stage2done" ELSE "loop"

\* The for loop (lines 1254-1941): a caught exception does not leave it.
AfterIteration(caught) ==
    IF idx + 1 > Len(commands) THEN "stage2done" ELSE "loop"

\* The filters the iteration parses from its command (lines 1273 and 1471,
\* 1769): analytics, query and count commands hand parts[3] to the parser.
ParsedBy(command) ==
    IF Prefixed(command) /\ OperationOf(command) \in {"analytics", "query", "count"}
    THEN ParamsOf(Split(command, ":"))
    ELSE <<>>

\* The effect of one iteration with outcome o.
Iterate(o) ==
    /\ results' = results \o o.pushed
    /\ trace' = Append(trace,
          [command |-> commands[idx], prefixed |-> Prefixed(commands[idx]),
           caught |-> o.caught, storeThrew |-> o.storeThrew,
           pushed |-> Len(o.pushed), slot |-> Len(results) + 1,
           params |-> ParsedBy(commands[idx])])
    /\ cachedData' = o.cachedData
    /\ lastDataFetch' = o.lastDataFetch
    /\ nextId' = o.nextId
    /\ idx' = idx + 1
    /\ pc' = AfterIteration(o.caught)
    /\ UNCHANGED <<isConnected, db, now, started, handler, geminiResponse,
                   commands, invoked, response, callerVars>>

IsSkipped(command) == ~Prefixed(command)
IsAnalytics(command) == Prefixed(command) /\ OperationOf(command) = "analytics"
IsGet(command) == Prefixed(command) /\ OperationOf(command) = "get"
IsQuery(command) == Prefixed(command) /\ OperationOf(command) = "query"
IsCount(command) == Prefixed(command) /\ OperationOf(command) = "count"
IsOther(command) ==
    Prefixed(command)
    /\ OperationOf(command) \notin {"analytics", "get", "query", "count"}

\* Line 1257: a string without the prefix is passed over.
SkipCommand ==
    AtCommand /\ IsSkipped(commands[idx])
    /\ \E o \in Outcomes(commands[idx]) : Iterate(o)

RunAnalytics ==
    AtCommand /\ IsAnalytics(commands[idx])
    /\ \E o \in Outcomes(commands[idx]) : Iterate(o)

RunGet ==
    AtCommand /\ IsGet(commands[idx])
    /\ \E o \in Outcomes(commands[idx]) : Iterate(o)

RunQuery ==
    AtCommand /\ IsQuery(commands[idx])
    /\ \E o \in Outcomes(commands[idx]) : Iterate(o)

RunCount ==
    AtCommand /\ IsCount(commands[idx])
    /\ \E o \in Outcomes(commands[idx]) : Iterate(o)

\* set, update and unknown operations.
RunOther ==
    AtCommand /\ IsOther(commands[idx])
    /\ \E o \in Outcomes(commands[idx]) : Iterate(o)

----------------------------------------------------------------------------
(* Stage 1: the command generator and its keyword simulation.               *)

\* String.prototype.includes
Includes(s, sub) ==
    \E i \in 1..(Len(s) - Len(sub) + 1) : SubSeq(s, i, i + Len(sub) - 1) = sub

IncludesAny(s, subs) == \E sub \in subs : Includes(s, sub)

\* `for (const x of list) if (s.includes(x)) { found = x; break; }`
RECURSIVE FirstIncluded(_, _, _)
FirstIncluded(list, s, default) ==
    IF list = <<>> THEN default
    ELSE IF Includes(s, Head(list)) THEN Head(list)
    ELSE FirstIncluded(Tail(list), s, default)

months ==
    << "enero", "febrero", "marzo", "abril", "mayo", "junio",
       "julio", "agosto", "septiembre", "octubre", "noviembre", "diciembre" >>

categories ==
    << "comidas", "comida", "mundo", "comidas por el mundo",
       "experiencias", "bienestar", "fitness", "cultura", "deporte",
       "salud", "entretenimiento", "libros", "tech", "tecnología" >>

\* months[i] for a zero-based index i, as the code indexes the array.
MonthAt(i) == months[i + 1]
PreviousMonth(currentMonth) == MonthAt(IF currentMonth > 0 THEN currentMonth - 1 ELSE 11)

\* MultiModelHandler.simulateGeminiResponse; currentMonth = new Date().getMonth().
simulateGeminiResponse(message, currentMonth) ==
    LET lowerMessage == ToLowerCase(message)
        named == FirstIncluded(months, lowerMessage, "Mes actual")
        temporalContext ==
            IF Includes(lowerMessage, "mes pasado") THEN PreviousMonth(currentMonth)
            ELSE IF IncludesAny(lowerMessage, {"este mes", "mes actual"})
            THEN MonthAt(currentMonth)
            ELSE named
        listed == FirstIncluded(categories, lowerMessage, "")
        categoryDetected ==
            IF (Includes(lowerMessage, "comidas") /\ Includes(lowerMessage, "mundo"))
               \/ Includes(lowerMessage, "comidas por el mundo")
            THEN "Comidas del Mundo" ELSE listed
        has(words) == IncludesAny(lowerMessage, words)
    IN  [ temporalContext |-> temporalContext,
          intent |->
            IF categoryDetected # "" /\ temporalContext # "Mes actual"
            THEN "Consultar categoría " \o categoryDetected \o " en " \o temporalContext
            ELSE IF categoryDetected # ""
            THEN "Consultar categoría " \o categoryDetected
            ELSE IF temporalContext # "Mes actual"
            THEN "Consultar datos de " \o temporalContext
            ELSE IF has({"inversión", "gasto", "dinero", "presupuesto", "invertido",
                         "gastado"})
            THEN "Conocer gastos o inversión"
            ELSE IF has({"beneficio", "canje", "canjeado", "utilizado", "uso"})
            THEN "Ver estado de beneficios"
            ELSE IF has({"tasa", "porcentaje", "redemption", "canjeo"})
            THEN "Conocer tasas de utilización"
            ELSE IF has({"progreso", "avance", "actual", "estado"})
            THEN "Ver progreso del mes"
            ELSE IF has({"comparar", "compara", "versus", "vs"})
                    \/ (Includes(lowerMessage, "diciembre")
                        /\ ~Includes(temporalContext, "diciembre"))
            THEN "Comparar rendimiento entre periodos"
            ELSE IF has({"categoría", "categoria", "tipo", "mejores", "populares"})
            THEN "Ver categorías de beneficios"
            ELSE IF has({"usuario", "personas", "empleados", "activos"})
            THEN "Conocer usuarios activos"
            ELSE "Consulta general",
          commands |->
            IF categoryDetected # "" /\ temporalContext # "Mes actual"
            THEN <<"firebase:query:userBenefits:Categoria=" \o categoryDetected
                   \o ",Mes_de_beneficio=" \o temporalContext>>
            ELSE IF categoryDetected # ""
            THEN <<"firebase:query:userBenefits:Categoria=" \o categoryDetected>>
            ELSE IF temporalContext # "Mes actual"
            THEN <<"firebase:query:userBenefits:Mes_de_beneficio=" \o temporalContext>>
            ELSE IF has({"inversión", "gasto", "dinero", "presupuesto", "invertido",
                         "gastado"})
            THEN <<"firebase:analytics:investment:month=" \o temporalContext>>
            ELSE IF has({"beneficio", "canje", "canjeado", "utilizado", "uso"})
            THEN <<"firebase:analytics:benefit-status:month=" \o temporalContext>>
            ELSE IF has({"tasa", "porcentaje", "redemption", "canjeo"})
            THEN <<"firebase:analytics:redemption-rate">>
            ELSE IF has({"progreso", "avance", "actual", "estado"})
            THEN <<"firebase:analytics:month-progress">>
            ELSE IF has({"comparar", "compara", "versus", "vs"})
                    \/ (Includes(lowerMessage, "diciembre")
                        /\ ~Includes(temporalContext, "diciembre"))
            THEN <<"firebase:analytics:compare-december">>
            ELSE IF has({"categoría", "categoria", "tipo", "mejores", "populares"})
            THEN <<"firebase:analytics:top-categories">>
            ELSE IF has({"usuario", "personas", "empleados", "activos"})
            THEN <<"firebase:analytics:active-users:month=" \o temporalContext>>
            ELSE <<"firebase:analytics:month-progress">> ]

\* GeminiAdapter.simulateGeminiResponse.
simulateGeminiResponse_Adapter(message, currentMonth) ==
    LET lowerMessage == ToLowerCase(message)
        named == FirstIncluded(months, lowerMessage, "")
        relative == IncludesAny(lowerMessage, {"mes pasado", "este mes", "mes actual"})
        targetMonth ==
            IF Includes(lowerMessage, "mes pasado") THEN PreviousMonth(currentMonth)
            ELSE IF IncludesAny(lowerMessage, {"este mes", "mes actual"})
            THEN MonthAt(currentMonth)
            ELSE IF named # "" THEN named
            ELSE MonthAt(currentMonth)
        monthSpecified == named # "" \/ relative
        categoryDetected == FirstIncluded(categories, lowerMessage, "") # ""
        has(words) == IncludesAny(lowerMessage, words)
    IN  [ userMessage |-> "Estoy analizando esa información para ti. Dame un momento...",
          commands |->
            IF has({"inversión", "gasto", "dinero", "presupuesto"})
            THEN <<"firebase:analytics:investment:month=" \o targetMonth>>
            ELSE IF categoryDetected /\ monthSpecified
            THEN <<"firebase:query:userBenefits:Categoria=Comidas del Mundo,Mes_de_beneficio="
                   \o targetMonth>>
            ELSE IF categoryDetected
            THEN <<"firebase:query:userBenefits:Categoria=Comidas del Mundo">>
            ELSE IF monthSpecified
            THEN <<"firebase:query:userBenefits:Mes_de_beneficio=" \o targetMonth,
                   "firebase:analytics:investment:month=" \o targetMonth>>
            ELSE IF has({"beneficio", "canje"})
            THEN <<"firebase:analytics:benefit-status:month=" \o targetMonth>>
            ELSE IF has({"tasa", "porcentaje"})
            THEN <<"firebase:analytics:redemption-rate">>
            ELSE IF has({"progreso", "avance"})
            THEN <<"firebase:analytics:month-progress">>
            ELSE IF has({"comparar", "diciembre"})
            THEN <<"firebase:analytics:compare-december">>
            ELSE IF has({"categoría", "tipo"})
            THEN <<"firebase:analytics:top-categories">>
            ELSE IF has({"usuario", "personas"})
            THEN <<"firebase:analytics:active-users:month=" \o targetMonth>>
            ELSE <<"firebase:analytics:month-progress">> ]

\* The user messages and the values of new Date().getMonth() the model draws.
UserMessages ==
    { "hola",
      "gasto total",
      "beneficios de enero",
      "comidas del mundo en diciembre",
      "tasa del mes pasado" }

MonthIndexes == {0, 11}

\* The commands a parsed Stage 1 reply may carry in the pipeline.
PipelineAlphabet ==
    { "hola",
      "firebase:analytics:investment:month=diciembre",
      "firebase:get:userBenefits",
      "firebase:count:userBenefits:Mes_de_beneficio=diciembre",
      "firebase:set:userBenefits/b1:Estado=Canjeado" }

PipelineBatches == SeqsUpTo(PipelineAlphabet, MaxBatch)

\* The userMessage field of a parsed reply ("" stands for a missing one).
ParsedUserMessages == {"", "Reviso los beneficios de diciembre."}

\* `a || b` on strings.
OrElse(a, b) == IF a # "" THEN a ELSE b

\* callGemini (lines 316-380) and queryGemini (lines 863-916), by outcome:
\* no API key or a failed call gives the simulation, a parsed reply gives
\* the reply's commands.
SimulatedResponses(h) ==
    IF h = "MultiModelHandler"
    THEN {simulateGeminiResponse(m, c) : m \in UserMessages, c \in MonthIndexes}
    ELSE {simulateGeminiResponse_Adapter(m, c) : m \in UserMessages, c \in MonthIndexes}

ParsedResponses(h) ==
    IF h = "MultiModelHandler"
    THEN {[intent |-> "Intención no identificada", temporalContext |-> "No especificado",
           commands |-> b] : b \in PipelineBatches}
    ELSE {[userMessage |-> OrElse(u, "Estoy procesando tu consulta..."),
           commands |-> b] : b \in PipelineBatches, u \in ParsedUserMessages}

ClarificationMessage ==
    "Lo siento, no pude entender completamente tu consulta. ¿Podrías reformularla o ser más específico?"

AdapterClarificationMessage ==
    "No pude entender completamente tu consulta. ¿Podrías ser más específico?"

ZeroCommandsReply_Fixed(h, g) == ClarificationMessage

\* Lines 239-242 and 818-820: what processMessage returns for no commands.
ZeroCommandsReply(h, g) ==
    IF h = "MultiModelHandler" THEN ClarificationMessage
    ELSE OrElse(g.userMessage, AdapterClarificationMessage)

\* Stage 1 and the zero-commands test that follows it.
AfterStage1(g) ==
    /\ pc = "stage1"
    /\ geminiResponse' = g
    /\ IF Len(g.commands) = 0
       THEN response' = Set(ZeroCommandsReply(handler, g)) /\ pc' = "done"
       ELSE response' = response /\ pc' = "stage2"
    /\ UNCHANGED <<isConnected, serviceVars, db, now, started, handler,
                   commands, idx, results, trace, invoked, callerVars>>

Stage1Simulated == \E g \in SimulatedResponses(handler) : AfterStage1(g)
Stage1Parsed == \E g \in ParsedResponses(handler) : AfterStage1(g)

----------------------------------------------------------------------------
(* After Stage 2: the all-errors test and Stage 3.                          *)

\* `r.error` and `r.result` as conditions.
ErrorTruthy(r) == IsSet(r.error) /\ r.error[1] # ""
ResultTruthy(r) == IsSet(r.result) /\ Truthy(r.result[1])

\* commandResults.every(r => r.error)
EveryError(rs) == \A i \in 1..Len(rs) : ErrorTruthy(rs[i])

\* commandResults.filter(r => !r.error && r.result)
ValidResults(rs) == SelectSeq(rs, LAMBDA r : ~ErrorTruthy(r) /\ ResultTruthy(r))

RetryMessage ==
    "Lo siento, tuve problemas al obtener la información solicitada. Por favor, intenta nuevamente en unos momentos."

PipelineErrorMessage ==
    "Lo siento, ocurrió un error al procesar tu consulta. Por favor, intenta nuevamente."

NoInformationMessage == "No pude encontrar información relevante para tu consulta."

\* What the Stage 3 model call can yield: no API key configured, a failed
\* request, or a reply whose message content is a text, "" or null.
ModelReplies ==
    { [kind |-> "no-key",  content |-> ""],
      [kind |-> "failed",  content |-> ""],
      [kind |-> "text",    content |-> "En diciembre se invirtieron $1000."],
      [kind |-> "text",    content |-> ""],
      [kind |-> "null",    content |-> ""] }

\* simulateGptResponse (lines 584-630): the fixed opening, then details.
simulateGptResponse == "He analizado la información solicitada. "

\* formatResponseWithoutGpt (lines 1092-1187): the opening of the branch
\* chosen by the first valid result's command.
formatResponseWithoutGpt(commandResults, defaultMessage) ==
    LET validResults == ValidResults(commandResults)
        command == validResults[1].command
    IN  IF Len(validResults) = 0 THEN defaultMessage
        ELSE IF Includes(command, "investment") THEN "La inversión total "
        ELSE IF Includes(command, "benefit-status") THEN "Estado actual de beneficios:"
        ELSE IF Includes(command, "redemption-rate") THEN "La tasa de canje "
        ELSE IF Includes(command, "month-progress") THEN "Progreso del mes "
        ELSE IF Includes(command, "compare-december")
        THEN "Comparación de diciembre con otros meses:"
        ELSE "Se encontraron resultados para tu consulta."

\* MultiModelHandler lines 259-278: the all-errors test, then callChatGPT.
CheckResults ==
    /\ pc = "stage2done"
    /\ handler = "MultiModelHandler"
    /\ IF EveryError(results)
       THEN response' = Set(RetryMessage) /\ pc' = "done" /\ invoked' = invoked
       ELSE response' = response /\ pc' = "stage3"
            /\ invoked' = Append(invoked, "callChatGPT")
    /\ UNCHANGED <<isConnected, serviceVars, db, now, started, handler,
                   geminiResponse, commands, idx, results, trace, callerVars>>

\* callChatGPT (lines 517-579) and the return of processMessage: a null
\* content makes `.length` throw inside callChatGPT's try block.
ChatGPTReply ==
    /\ pc = "stage3"
    /\ handler = "MultiModelHandler"
    /\ \E reply \in ModelReplies :
          /\ response' = Set(IF reply.kind = "text" THEN reply.content
                             ELSE simulateGptResponse)
          /\ invoked' = IF reply.kind = "no-key" THEN invoked
                       ELSE Append(invoked, "model")
    /\ pc' = "done"
    /\ UNCHANGED <<isConnected, serviceVars, db, now, started, handler,
                   geminiResponse, commands, idx, results, trace, callerVars>>

\* GeminiAdapter lines 832-834 and interpretResults lines 1033-1047.
InterpretResults ==
    /\ pc = "stage2done"
    /\ handler = "GeminiAdapter"
    /\ invoked' = Append(invoked, "interpretResults")
    /\ IF Len(results) = 0 \/ EveryError(results) \/ Len(ValidResults(results)) = 0
       THEN response' = Set(OrElse(geminiResponse.userMessage, NoInformationMessage))
            /\ pc' = "done"
       ELSE response' = response /\ pc' = "stage3"
    /\ UNCHANGED <<isConnected, serviceVars, db, now, started, handler,
                   geminiResponse, commands, idx, results, trace, callerVars>>

\* interpretResults lines 1049-1086 and processMessage lines 838-857: a null
\* content is returned by interpretResults and makes `.length` throw in
\* processMessage, whose catch block answers.
InterpretationReply ==
    /\ pc = "stage3"
    /\ handler = "GeminiAdapter"
    /\ \E reply \in ModelReplies :
          /\ response' =
                Set(CASE reply.kind = "text" -> reply.content
                      [] reply.kind = "null" -> PipelineErrorMessage
                      [] OTHER -> formatResponseWithoutGpt(results,
                                      geminiResponse.userMessage))
          /\ invoked' = IF reply.kind = "no-key" THEN invoked
                       ELSE Append(invoked, "model")
    /\ pc' = "done"
    /\ UNCHANGED <<isConnected, serviceVars, db, now, started, handler,
                   geminiResponse, commands, idx, results, trace, callerVars>>

----------------------------------------------------------------------------
(* The pipeline specification: one processMessage invocation.               *)

\* `now` starts late enough that the never-filled cache (lastDataFetch = 0)
\* is older than the TTL, as it is on any real clock.
StartTime == 2 * cacheTTL

PipelineStores == { {}, {"firestore", "userBenefits"} }

\* After construction of the service (lines 58-101) and of the handler
\* (app.ts lines 141-160), at the call of processMessage.
ServiceInit ==
    /\ isConnected \in BOOLEAN
    /\ cachedData = Null
    /\ lastDataFetch = 0
    /\ now = StartTime
    /\ started = 0
    /\ nextId = 1

IdleFlow ==
    /\ commands = <<>>
    /\ idx = 0
    /\ results = <<>>
    /\ trace = <<>>
    /\ invoked = <<>>
    /\ response = Absent

NoCallers ==
    /\ call = <<>>
    /\ pending = {}
    /\ log = <<>>

Init ==
    /\ ServiceInit
    /\ db \in {StoreWith(populated) : populated \in PipelineStores}
    /\ handler \in Handlers
    /\ pc = "stage1"
    /\ geminiResponse = [commands |-> <<>>]
    /\ IdleFlow
    /\ NoCallers

Next ==
    \/ Stage1Simulated
    \/ Stage1Parsed
    \/ ExecuteCommands
    \/ SkipCommand
    \/ RunAnalytics
    \/ RunGet
    \/ RunQuery
    \/ RunCount
    \/ RunOther
    \/ CheckResults
    \/ ChatGPTReply
    \/ InterpretResults
    \/ InterpretationReply

Spec == Init /\ [][Next]_vars

(* The runner specification: executeCommands called with any batch.         *)

InitBatch ==
    /\ ServiceInit
    /\ db \in {StoreWith(populated) : populated \in PopulatedChoices}
    /\ handler = "none"
    /\ pc = "stage2"
    /\ geminiResponse \in {[commands |-> b] : b \in Batches}
    /\ IdleFlow
    /\ NoCallers

NextBatch ==
    \/ ExecuteCommands
    \/ SkipCommand
    \/ RunAnalytics
    \/ RunGet
    \/ RunQuery
    \/ RunCount
    \/ RunOther

SpecBatch == InitBatch /\ [][NextBatch]_vars

----------------------------------------------------------------------------
(* The cache specification: accesses to fetchAllBenefitsData, one after     *)
(* the other, over a store that may fail and a clock that advances.         *)

\* The instants the clock is read at: they put an access just after a
\* fetch, just inside the TTL and exactly at the TTL.
ClockValues ==
    {StartTime, StartTime + 1, StartTime + cacheTTL - 1, StartTime + cacheTTL}

CacheStores == { {}, {"firestore"}, {"realtime/firestore"} }

\* Object identity of a cached array (0 for null).
IdOf(x) == IF x.t = "null" THEN 0 ELSE x.id

Idle == [at |-> "idle", useCache |-> TRUE, entered |-> 0, k |-> 0]

InitCache ==
    /\ ServiceInit
    /\ isConnected = TRUE
    /\ db \in {StoreWith(populated) : populated \in CacheStores}
    /\ handler = "none"
    /\ pc = "cache"
    /\ geminiResponse = [commands |-> <<>>]
    /\ IdleFlow
    /\ NoCallers

\* Date.now() advances.
Tick ==
    /\ pc \in {"cache", "race"}
    /\ \E t \in ClockValues : t > now /\ now' = t
    /\ UNCHANGED <<isConnected, serviceVars, db, started, pipelineVars,
                   callerVars>>

\* The record of one completed access: the cache it found, what it did and
\* the cache it left.
Access(useCache, f) ==
    [useCache |-> useCache, entered |-> now,
     cachedBefore |-> IdOf(cachedData), fetchedBefore |-> lastDataFetch,
     hit |-> f.calls = 0, threw |-> f.threw, calls |-> f.calls,
     returned |-> IdOf(f.data),
     cachedAfter |-> IdOf(f.cachedData), fetchedAfter |-> f.lastDataFetch]

\* One call of fetchAllBenefitsData(useCache) whose failAt-th store call fails.
AccessCache(useCache, failAt) ==
    LET f == FetchAll(useCache, failAt)
    IN  /\ pc = "cache"
        /\ Len(log) < MaxAccesses
        /\ cachedData' = f.cachedData
        /\ lastDataFetch' = f.lastDataFetch
        /\ nextId' = f.nextId
        /\ log' = Append(log, Access(useCache, f))
        /\ UNCHANGED <<isConnected, db, now, started, pipelineVars, call,
                       pending>>

\* Lines 1157-1160.
CacheHit ==
    \E useCache \in BOOLEAN :
        /\ CacheFresh(useCache, cachedData, lastDataFetch, now)
        /\ AccessCache(useCache, 0)

\* Lines 1162-1199.
CacheRefresh ==
    \E useCache \in BOOLEAN :
        /\ ~CacheFresh(useCache, cachedData, lastDataFetch, now)
        /\ ~FetchAll(useCache, 0).threw
        /\ AccessCache(useCache, 0)

\* Lines 1185-1187: no path holds data.
CacheNoData ==
    \E useCache \in BOOLEAN :
        /\ ~CacheFresh(useCache, cachedData, lastDataFetch, now)
        /\ FetchAll(useCache, 0).threw
        /\ AccessCache(useCache, 0)

\* Lines 1200-1203: a store call fails.
CacheStoreFails ==
    \E useCache \in BOOLEAN, failAt \in 1..Len(FetchPaths) :
        /\ ~CacheFresh(useCache, cachedData, lastDataFetch, now)
        /\ FetchAll(useCache, failAt).storeThrew
        /\ AccessCache(useCache, failAt)

NextCache ==
    \/ Tick
    \/ CacheHit
    \/ CacheRefresh
    \/ CacheNoData
    \/ CacheStoreFails

SpecCache == InitCache /\ [][NextCache]_vars

----------------------------------------------------------------------------
(* The race specification: concurrent callers of fetchAllBenefitsData,      *)
(* each suspended at its `await get(dbRef)`.                                *)

Callers == 1..NumCallers

InitRace ==
    /\ ServiceInit
    /\ isConnected = TRUE
    /\ db \in {StoreWith(populated) : populated \in CacheStores}
    /\ handler = "none"
    /\ pc = "race"
    /\ geminiResponse = [commands |-> <<>>]
    /\ IdleFlow
    /\ call = [c \in Callers |-> Idle]
    /\ pending = {}
    /\ log = <<>>

\* A new access takes the lowest free frame (the callers are alike).
Free(c) ==
    /\ pc = "race"
    /\ call[c].at = "idle"
    /\ \A d \in Callers : d < c => call[d].at = "await"
    /\ started < MaxAccesses

IssueGet_SingleFlight(c, k) ==
    IF \E r \in pending : r.k = k THEN pending
    ELSE pending \cup {[caller |-> c, k |-> k]}

\* `await get(dbRef)` for possiblePaths[k]: the caller's own store request.
IssueGet(c, k) == pending \cup {[caller |-> c, k |-> k]}

\* Lines 1154-1160: the cached data is fresh and is returned at once.
EnterHit(c) ==
    /\ Free(c)
    /\ \E useCache \in BOOLEAN : CacheFresh(useCache, cachedData, lastDataFetch, now)
    /\ started' = started + 1
    /\ UNCHANGED <<isConnected, serviceVars, db, now, pipelineVars, callerVars>>

\* Lines 1154-1177: otherwise the first path is requested.
EnterMiss(c) ==
    /\ Free(c)
    /\ \E useCache \in BOOLEAN :
          /\ ~CacheFresh(useCache, cachedData, lastDataFetch, now)
          /\ call' = [call EXCEPT ![c] =
                        [at |-> "await", useCache |-> useCache, entered |-> now,
                         k |-> 1]]
    /\ pending' = IssueGet(c, 1)
    /\ started' = started + 1
    /\ UNCHANGED <<isConnected, serviceVars, db, now, pipelineVars, log>>

Awaiting(c) ==
    /\ pc = "race"
    /\ call[c].at = "await"
    /\ [caller |-> c, k |-> call[c].k] \in pending

Completed(c) == pending \ {[caller |-> c, k |-> call[c].k]}

\* The record of one completed refresh: what it found in the cache, whether
\* another refresh was in flight when it completed, what it wrote (wrote = 0:
\* it threw) and the cache it left.
Completion(c, threw) ==
    [threw |-> threw, entered |-> call[c].entered,
     wrote |-> IF threw THEN 0 ELSE nextId,
     overlapped |-> \E d \in Callers \ {c} : call[d].at = "await",
     cachedBefore |-> IdOf(cachedData), fetchedBefore |-> lastDataFetch,
     cachedAfter |-> IdOf(cachedData'), fetchedAfter |-> lastDataFetch']

RefreshedData_FirstWriterWins(c) ==
    IF cachedData.t # "null" THEN cachedData
    ELSE ToArray(nextId, SnapshotVal(FetchPaths[call[c].k]))

\* Lines 1189-1195: the array assigned to this.cachedData.
RefreshedData(c) == ToArray(nextId, SnapshotVal(FetchPaths[call[c].k]))

FetchedAt_Completion(c) == now

\* Lines 1154 and 1196: lastDataFetch takes the `now` read at entry.
FetchedAt(c) == call[c].entered

\* Lines 1177-1199: the snapshot exists; the data replaces the cache with the
\* `now` read at entry.
GetFinds(c) ==
    /\ Awaiting(c)
    /\ SnapshotExists(FetchPaths[call[c].k])
    /\ cachedData' = RefreshedData(c)
    /\ lastDataFetch' = FetchedAt(c)
    /\ nextId' = nextId + 1
    /\ call' = [call EXCEPT ![c] = Idle]
    /\ pending' = Completed(c)
    /\ log' = Append(log, Completion(c, FALSE))
    /\ UNCHANGED <<isConnected, db, now, started, pipelineVars>>

\* Lines 1173-1183: nothing at this path; the next one is requested.
GetMisses(c) ==
    /\ Awaiting(c)
    /\ ~SnapshotExists(FetchPaths[call[c].k])
    /\ call[c].k < Len(FetchPaths)
    /\ call' = [call EXCEPT ![c].k = call[c].k + 1]
    /\ pending' = (IssueGet(c, call[c].k + 1)) \ {[caller |-> c, k |-> call[c].k]}
    /\ UNCHANGED <<isConnected, serviceVars, db, now, started, pipelineVars,
                   log>>

\* Lines 1185-1187 and 1200-1203: the access throws and the cache is left
\* as it is.
Throws(c) ==
    /\ call' = [call EXCEPT ![c] = Idle]
    /\ pending' = Completed(c)
    /\ UNCHANGED <<isConnected, serviceVars, db, now, started, pipelineVars>>
    /\ log' = Append(log, Completion(c, TRUE))

NoData(c) ==
    /\ Awaiting(c)
    /\ ~SnapshotExists(FetchPaths[call[c].k])
    /\ call[c].k = Len(FetchPaths)
    /\ Throws(c)

GetThrows(c) ==
    /\ Awaiting(c)
    /\ Throws(c)

NextRace ==
    \/ Tick
    \/ \E c \in Callers : EnterHit(c)
    \/ \E c \in Callers : EnterMiss(c)
    \/ \E c \in Callers : GetFinds(c)
    \/ \E c \in Callers : GetMisses(c)
    \/ \E c \in Callers : NoData(c)
    \/ \E c \in Callers : GetThrows(c)

SpecRace == InitRace /\ [][NextRace]_vars

----------------------------------------------------------------------------
(* The read specification: executeCommands called with read commands (a     *)
(* query and a count with the same path and filters, or a get) and with     *)
(* command strings that lack parts, over stores whose paths differ.         *)

\* The filter clauses the read commands are built from.
FilterClauses ==
    { "Categoria=bienestar", "Categoria!=BIENESTAR", "Mes_de_beneficio=diciembre",
      "Estado=canjeado", "Inversion<5000", "Inversion>=1000", "Inversion>abc" }

RECURSIVE JoinClauses(_)
JoinClauses(clauses) ==
    IF clauses = <<>> THEN ""
    ELSE IF Len(clauses) = 1 THEN clauses[1]
    ELSE clauses[1] \o "," \o JoinClauses(Tail(clauses))

FilterExprs == {JoinClauses(q) : q \in SeqsUpTo(FilterClauses, MaxFilters)}

ReadPath == "userBenefits"

ReadCommand(operation, expr) ==
    NamespacePrefix \o operation \o ":" \o ReadPath
    \o (IF expr = "" THEN "" ELSE ":" \o expr)

\* Command strings with parts missing.
ShortCommands ==
    {"firebase", "firebase:", "firebase:get", "firebase:query", "firebase:analytics"}

ReadBatches ==
    {<<ReadCommand("query", e), ReadCommand("count", e)>> : e \in FilterExprs}
    \cup {<<ReadCommand("get", "")>>}
    \cup {<<c>> : c \in ShortCommands}

\* The i-th and j-th records of the sample under other store keys.
Rekeyed(keys, picks) ==
    JsObj([i \in 1..Len(picks) |->
              [key |-> keys[i], item |-> SampleBenefits.v[picks[i]].item]])

\* What each path holds when it holds data: the keys tell the paths apart.
CollectionAt(path) ==
    CASE path = "userBenefits" -> Rekeyed(<<"d1", "d3">>, <<1, 3>>)
      [] path = "firestore"    -> Rekeyed(<<"f2">>, <<2>>)
      [] OTHER                 -> SampleBenefits

ReadStores == SUBSET {"realtime/userBenefits", "userBenefits", "firestore"}

ReadStoreWith(populated) ==
    [p \in Paths |-> IF p \in populated THEN CollectionAt(p) ELSE Null]

InitRead ==
    /\ ServiceInit
    /\ db \in {ReadStoreWith(populated) : populated \in ReadStores}
    /\ handler = "none"
    /\ pc = "stage2"
    /\ geminiResponse \in {[commands |-> b] : b \in ReadBatches}
    /\ IdleFlow
    /\ NoCallers

SpecRead == InitRead /\ [][NextBatch]_vars

----------------------------------------------------------------------------
(* FirebaseService (tools/firebase.ts): the document-store executor that    *)
(* ChatGPTHandler owns.  Only its set and update commands are followed.     *)

\* parseCommandParams: "name=value,age=25" as an object; a later clause
\* with the same key replaces an earlier one.
parseCommandParams(paramsString) ==
    LET params == IF paramsString = "" THEN <<>> ELSE Split(paramsString, ",")
        pair(k) == Split(params[k], "=")
        kept == {k \in DOMAIN params : pair(k)[1] # "" /\ Len(pair(k)) >= 2}
        last(key) == CHOOSE k \in kept :
                        /\ pair(k)[1] = key
                        /\ \A h \in kept : pair(h)[1] = key => h <= k
    IN  [key \in {pair(k)[1] : k \in kept} |-> ConvertValue(pair(last(key))[2])]

\* The collection `collectionName` of the document store, kept in db under
\* a key no path of the realtime store can take.
DocumentsKey(collectionName) == "documents:" \o collectionName

DocumentCollections == {"userBenefits"}

\* {...data, updatedAt: new Date().toISOString()}
Stamped(data) ==
    [f \in DOMAIN data \cup {"updatedAt"} |->
        IF f = "updatedAt" THEN JsNum(now) ELSE data[f]]

\* {...old, ...new}
Merged(old, new) ==
    [f \in DOMAIN old \cup DOMAIN new |-> IF f \in DOMAIN new THEN new[f] ELSE old[f]]

DocumentIndex(entries, documentId) ==
    IF \E k \in DOMAIN entries : entries[k].key = documentId
    THEN CHOOSE k \in DOMAIN entries : entries[k].key = documentId
    ELSE 0

\* setDoc replaces or creates the document.
SetDoc(entries, documentId, item) ==
    IF DocumentIndex(entries, documentId) = 0
    THEN Append(entries, [key |-> documentId, item |-> item])
    ELSE [entries EXCEPT ![DocumentIndex(entries, documentId)].item = item]

\* updateDoc merges into the document, which must exist.
UpdateDoc(entries, documentId, item) ==
    [entries EXCEPT ![DocumentIndex(entries, documentId)].item = Merged(@, item)]

NoDocumentMessage == "No document to update"

\* Lines 163-166 and 177-180: the CommandResult of a write.
WriteResult(command, operation, documentId, collectionName) ==
    ResultOf(command,
        JsObj([success |-> TRUE,
               message |-> "Document " \o documentId
                           \o (IF operation = "set" THEN " set in " ELSE " updated in ")
                           \o collectionName]))

\* Lines 109-182 and 238-244 for a set or update command `collection/id`:
\* the result pushed and the store left; the store call may reject.
DocumentWrite(command, rejects) ==
    LET parts == Split(command, ":")
        operation == parts[2]
        pathParts == Split(parts[3], "/")
        collectionName == pathParts[1]
        documentId == pathParts[2]
        data == Stamped(parseCommandParams(IF HasPart(parts, 4) THEN parts[4] ELSE ""))
        entries == db[DocumentsKey(collectionName)].v
        missing == operation = "update" /\ DocumentIndex(entries, documentId) = 0
    IN  IF rejects \/ missing
        THEN [pushed |-> ErrorOf(command, IF rejects THEN StoreErrorMessage
                                          ELSE NoDocumentMessage),
              caught |-> "outer", db |-> db]
        ELSE [pushed |-> WriteResult(command, operation, documentId, collectionName),
              caught |-> "none",
              db |-> [db EXCEPT ![DocumentsKey(collectionName)] =
                        JsObj(IF operation = "set"
                              THEN SetDoc(entries, documentId, data)
                              ELSE UpdateDoc(entries, documentId, data))]]

LegacyConnectionError ==
    [command |-> "firebase:connection", result |-> Absent,
     error |-> Set("Firebase not connected")]

\* Lines 98-107: the guard before the loop (an empty list runs no iteration).
LegacyExecuteCommands ==
    /\ pc = "stage2" /\ handler = "ChatGPTHandler"
    /\ commands' = geminiResponse.commands
    /\ trace' = <<>>
    /\ invoked' = Append(invoked, "executeCommands")
    /\ IF ~isConnected
       THEN results' = <<LegacyConnectionError>> /\ idx' = 0 /\ pc' = "stage2done"
       ELSE IF Len(geminiResponse.commands) = 0
       THEN results' = <<>> /\ idx' = 0 /\ pc' = "stage2done"
       ELSE results' = <<>> /\ idx' = 1 /\ pc' = "loop"
    /\ UNCHANGED <<isConnected, serviceVars, db, now, started, handler,
                   geminiResponse, response, callerVars>>

\* One iteration of the loop at lines 109-245 that pushes `pushed`.
LegacyIterate(pushed, caught, store) ==
    /\ AtCommand /\ handler = "ChatGPTHandler"
    /\ results' = results \o pushed
    /\ trace' = Append(trace,
          [command |-> commands[idx], prefixed |-> Prefixed(commands[idx]),
           caught |-> caught, storeThrew |-> caught # "none",
           pushed |-> Len(pushed), slot |-> Len(results) + 1,
           params |-> <<>>])
    /\ db' = store
    /\ idx' = idx + 1
    /\ pc' = AfterIteration(caught)
    /\ UNCHANGED <<isConnected, serviceVars, now, started, handler,
                   geminiResponse, commands, invoked, response, callerVars>>

IsWrite(command) == Prefixed(command) /\ OperationOf(command) \in {"set", "update"}

\* Line 111.
LegacySkip ==
    /\ AtCommand /\ IsSkipped(commands[idx])
    /\ LegacyIterate(<<>>, "none", db)

\* Lines 156-182.
LegacyWrite ==
    /\ AtCommand /\ IsWrite(commands[idx])
    /\ \E rejects \in BOOLEAN :
          LET w == DocumentWrite(commands[idx], rejects)
          IN  LegacyIterate(<<w.pushed>>, w.caught, w.db)

\* Lines 229-235: an operation the switch does not know.
LegacyUnknown ==
    /\ AtCommand /\ Prefixed(commands[idx])
    /\ OperationOf(commands[idx]) \notin {"get", "set", "update", "query", "count"}
    /\ LegacyIterate(<<ErrorOf(commands[idx], "Unknown operation: "
                                               \o OperationOf(commands[idx]))>>,
                     "none", db)

(* The write specification: set and update commands given to either         *)
(* executor.                                                                *)

WriteAlphabet ==
    { "hola",
      "firebase:set:userBenefits/b1:Estado=Canjeado",
      "firebase:set:userBenefits/b9:Estado=Pendiente,Inversion=500",
      "firebase:update:userBenefits/b1:Estado=Canjeado",
      "firebase:update:userBenefits/b9:Estado=Canjeado",
      "firebase:delete:userBenefits/b1" }

WriteBatches == SeqsUpTo(WriteAlphabet, MaxBatch)

\* Which executor is called: EnhancedFirebaseService directly ("none") or
\* the FirebaseService of ChatGPTHandler.
Executors == {"none", "ChatGPTHandler"}

WriteStoreWith(populated) ==
    [p \in Paths \cup {DocumentsKey(c) : c \in DocumentCollections} |->
        IF p \in Paths THEN StoreWith(populated)[p]
        ELSE IF populated = {} THEN JsObj(<<>>) ELSE SampleBenefits]

InitWrite ==
    /\ ServiceInit
    /\ db \in {WriteStoreWith(populated) : populated \in PipelineStores}
    /\ handler \in Executors
    /\ pc = "stage2"
    /\ geminiResponse \in {[commands |-> b] : b \in WriteBatches}
    /\ IdleFlow
    /\ NoCallers

EnhancedExecutor == handler = "none"

NextWrite ==
    \/ EnhancedExecutor /\ ExecuteCommands
    \/ EnhancedExecutor /\ SkipCommand
    \/ EnhancedExecutor /\ RunOther
    \/ LegacyExecuteCommands
    \/ LegacySkip
    \/ LegacyWrite
    \/ LegacyUnknown

SpecWrite == InitWrite /\ [][NextWrite]_vars

(* The parse specification: a count command whose filter list holds        *)
(* clauses the parser's pattern does not match.                             *)

ParseClauses ==
    {"Estado=canjeado", "Estado=", "=canjeado", "Estado", "Estado<", "=a="}

ParseExprs == {JoinClauses(q) : q \in SeqsUpTo(ParseClauses, MaxFilters)} \ {""}

InitParse ==
    /\ ServiceInit
    /\ db \in {ReadStoreWith(populated) : populated \in {{}, {"userBenefits"}}}
    /\ handler = "none"
    /\ pc = "stage2"
    /\ geminiResponse \in {[commands |-> <<ReadCommand("count", e)>>] : e \in ParseExprs}
    /\ IdleFlow
    /\ NoCallers

NextParse ==
    \/ ExecuteCommands
    \/ RunCount

SpecParse == InitParse /\ [][NextParse]_vars

----------------------------------------------------------------------------
(* The round-trip specification: a count command whose filter list is made  *)
(* of well-formed clauses, one for each operator of the grammar.            *)

RoundTripClauses ==
    { "Estado=canjeado", "Estado!=canjeado", "Inversion<5000", "Inversion<=5000",
      "Inversion>1000", "Inversion>=1000", "activo=true", "codigo=007" }

RoundTripExprs == {JoinClauses(q) : q \in SeqsUpTo(RoundTripClauses, MaxFilters)} \ {""}

InitRoundTrip ==
    /\ ServiceInit
    /\ db \in {ReadStoreWith(populated) : populated \in {{}, {"userBenefits"}}}
    /\ handler = "none"
    /\ pc = "stage2"
    /\ geminiResponse \in {[commands |-> <<ReadCommand("count", e)>>] : e \in RoundTripExprs}
    /\ IdleFlow
    /\ NoCallers

SpecRoundTrip == InitRoundTrip /\ [][NextParse]_vars

----------------------------------------------------------------------------
(* The Stage 1 specification: the keyword simulation called on texts, on    *)
(* days of different months.                                                *)

DecemberSpendingText == "¿cuánto gastamos en diciembre?"

Stage1Texts == UserMessages \cup {DecemberSpendingText}

\* this.simulateGeminiResponse(message) of the constructed orchestrator.
Simulate(h, message, currentMonth) ==
    IF h = "MultiModelHandler"
    THEN simulateGeminiResponse(message, currentMonth)
    ELSE simulateGeminiResponse_Adapter(message, currentMonth)

InitStage1 ==
    /\ ServiceInit
    /\ isConnected = TRUE
    /\ db = StoreWith({})
    /\ handler \in Handlers
    /\ pc = "stage1"
    /\ geminiResponse = [commands |-> <<>>]
    /\ IdleFlow
    /\ NoCallers

\* One call of the simulation; the call and what it returned are kept in
\* the history.
SimulateStage1 ==
    /\ pc = "stage1"
    /\ Len(invoked) < MaxCalls
    /\ \E message \in Stage1Texts, currentMonth \in MonthIndexes :
          LET g == Simulate(handler, message, currentMonth)
          IN  /\ geminiResponse' = g
              /\ invoked' = Append(invoked,
                    [message |-> message, currentMonth |-> currentMonth,
                     commands |-> g.commands])
    /\ UNCHANGED <<isConnected, serviceVars, db, now, started, handler, pc,
                   commands, idx, results, trace, response, callerVars>>

NextStage1 == SimulateStage1

SpecStage1 == InitStage1 /\ [][NextStage1]_vars

----------------------------------------------------------------------------
(* Values, arithmetic and dates of the analytics calculators.               *)

Undefined == [t |-> "undefined"]
PosInfinity == [t |-> "Infinity"]
NegInfinity == [t |-> "-Infinity"]

\* benefit.field: undefined when the record has no such field.
Prop(item, field) == IF field \in DOMAIN item THEN item[field] ELSE Undefined

\* `a || b`
Either(a, b) == IF Truthy(a) THEN a ELSE b

\* The string an operand of + is converted to.
ToText(x) ==
    CASE x.t = "string" -> x.v
      [] x.t = "number" -> NumberText(x.v)
      [] OTHER          -> x.t

\* a + b: concatenation as soon as one operand is a string.
JsPlus(a, b) ==
    IF a.t = "string" \/ b.t = "string" THEN JsStr(ToText(a) \o ToText(b))
    ELSE LET na == ToNumber(a)
             nb == ToNumber(b)
         IN  IF na.t = "NaN" \/ nb.t = "NaN" THEN NaN ELSE JsNum(na.v + nb.v)

\* a - b
JsMinus(a, b) ==
    LET na == ToNumber(a)
        nb == ToNumber(b)
    IN  IF na.t = "NaN" \/ nb.t = "NaN" THEN NaN ELSE JsNum(na.v - nb.v)

\* A number with two decimals, kept as its count of hundredths.
Hundredths(h) == [t |-> "number", v |-> h, scale |-> 100]

\* The integer nearest to n / d (d > 0); of two, the one away from zero, as
\* toFixed rounds.
RoundDiv(n, d) ==
    IF n >= 0 THEN (2 * n + d) \div (2 * d) ELSE 0 - ((2 * (0 - n) + d) \div (2 * d))

\* parseFloat(((n / d) * 100).toFixed(2)) for integers n and d >= 0, in
\* exact arithmetic.
Percent(n, d) ==
    IF d = 0
    THEN IF n = 0 THEN NaN ELSE IF n > 0 THEN PosInfinity ELSE NegInfinity
    ELSE Hundredths(RoundDiv(n * 10000, d))

\* The same for operands that are JavaScript values.
JsPercent(a, b) ==
    LET na == ToNumber(a)
        nb == ToNumber(b)
    IN  IF na.t = "NaN" \/ nb.t = "NaN" THEN NaN ELSE Percent(na.v, nb.v)

\* parseFloat((n / d).toFixed(2))
Quotient(n, d) ==
    IF d = 0
    THEN IF n = 0 THEN NaN ELSE IF n > 0 THEN PosInfinity ELSE NegInfinity
    ELSE Hundredths(RoundDiv(n * 100, d))

\* Days from 1 January 1970 to day d of month m (1-12) of year y in the
\* proleptic Gregorian calendar.
DaysFromCivil(y, m, d) ==
    LET yy  == IF m <= 2 THEN y - 1 ELSE y
        era == yy \div 400
        yoe == yy - era * 400
        mp  == IF m > 2 THEN m - 3 ELSE m + 9
        doy == (153 * mp + 2) \div 5 + d - 1
        doe == yoe * 365 + yoe \div 4 - yoe \div 100 + doy
    IN  era * 146097 + doe - 719468

\* The inverse: the year, month (1-12) and day of a day number.
CivilFromDays(z) ==
    LET zz  == z + 719468
        era == zz \div 146097
        doe == zz - era * 146097
        yoe == (doe - doe \div 1460 + doe \div 36524 - doe \div 146096) \div 365
        doy == doe - (365 * yoe + yoe \div 4 - yoe \div 100)
        mp  == (5 * doy + 2) \div 153
        m   == IF mp < 10 THEN mp + 3 ELSE mp - 9
    IN  [y |-> yoe + era * 400 + (IF m <= 2 THEN 1 ELSE 0),
         m |-> m,
         d |-> doy - (153 * mp + 2) \div 5 + 1]

\* A Date, kept as its local day number; getTime() is counted in days.
DateAt(time) == [t |-> "date", time |-> time]

\* new Date(year, monthIndex, day): years 0-99 are years of the 1900s, a
\* month or day out of range carries over.
NewDate(year, monthIndex, day) ==
    LET y  == IF year \in 0..99 THEN 1900 + year ELSE year
        ym == y * 12 + monthIndex
    IN  DateAt(DaysFromCivil(ym \div 12, (ym % 12) + 1, 1) + day - 1)

\* new Date(0)
EpochZero == DateAt(0)

\* date.getMonth()
getMonth(date) == CivilFromDays(date.time).m - 1

\* date.toLocaleDateString('es')
toLocaleDateString(date) ==
    LET c == CivilFromDays(date.time)
    IN  NumberText(c.d) \o "/" \o NumberText(c.m) \o "/" \o NumberText(c.y)

\* parseInt(s, 10) for unsigned text: the leading digits, NaN without any.
ParseInt(s) ==
    LET body == TrimLeft(s)
        e == IndexFrom(body, 1, DigitSet, FALSE)
    IN  IF e = 1 THEN NaN ELSE JsNum(DecimalValue(SubSeq(body, 1, e - 1)))

\* Lines 1209-1225.
parseDate(dateStr) ==
    IF ~Truthy(dateStr) \/ StrictEq(dateStr, JsStr("N/A")) THEN Null
    ELSE LET parts == Split(dateStr.v, "/")
         IN  IF Len(parts) # 3 THEN Null
             ELSE LET day   == ParseInt(parts[1])
                      month == ParseInt(parts[2])
                      year  == ParseInt(parts[3])
                  IN  IF day.t = "NaN" \/ month.t = "NaN" \/ year.t = "NaN"
                      THEN Null
                      ELSE NewDate(year.v, month.v - 1, day.v)

----------------------------------------------------------------------------
(* The analytics calculators, computed on the fetched records.  The fields  *)
(* the calculators read are strings or absent; Inversion and Devolucion     *)
(* may be numbers.                                                          *)

\* The values of a list without repetition, in order of first occurrence:
\* the keys of an accumulator object, the elements of a Set.
RECURSIVE Distinct(_)
Distinct(list) ==
    IF list = <<>> THEN <<>>
    ELSE LET front == Distinct(SubSeq(list, 1, Len(list) - 1))
             last == list[Len(list)]
         IN  IF \E k \in DOMAIN front : front[k] = last THEN front
             ELSE Append(front, last)

\* Array.prototype.map
Map(list, F(_)) == [k \in DOMAIN list |-> F(list[k])]

\* Array.prototype.sort with a comparator that is a consistent ordering:
\* Before(x, y) when the comparator puts x first; the sort is stable.
Sorted(list, Before(_, _)) ==
    LET Rank(k) == Cardinality({j \in DOMAIN list :
                        \/ Before(list[j], list[k])
                        \/ (~Before(list[k], list[j]) /\ j < k)}) + 1
    IN  [r \in DOMAIN list |-> list[CHOOSE k \in DOMAIN list : Rank(k) = r]]

\* a.name.localeCompare(b.name) < 0 for the names of the model (plain
\* capitalised words, which collate as their code units do).
NameBefore(a, b) == StringLess(a.name.v, b.name.v)

\* `parseDate(x) || new Date(0)`, then getTime()
TimeOf(dateStr) == Either(parseDate(dateStr), EpochZero).time

\* benefit.Mes_de_beneficio && benefit.Mes_de_beneficio.toLowerCase() === targetMonth.toLowerCase()
InMonth(benefit, targetMonth) ==
    /\ Truthy(Prop(benefit, "Mes_de_beneficio"))
    /\ ToLowerCase(Prop(benefit, "Mes_de_beneficio").v) = ToLowerCase(targetMonth)

\* Lines 485-494: the entry kept for one record of a user.
BenefitEntry(benefit) ==
    [id       |-> Prop(benefit, "id"),
     month    |-> Prop(benefit, "Mes_de_beneficio"),
     selected |-> Either(Prop(benefit, "Beneficio_seleccionado"), JsStr("No seleccionado")),
     status   |-> Either(Prop(benefit, "Estado"), JsStr("Desconocido")),
     date     |-> Prop(benefit, "Fecha_de_eleccion"),
     category |-> Prop(benefit, "Categoria"),
     generation |-> Prop(benefit, "Generacion"),
     gender   |-> Prop(benefit, "H_M")]

LatestBenefit_EarliestFirst(benefits) ==
    LET Earlier(a, b) == TimeOf(a.date) < TimeOf(b.date)
    IN  Sorted(benefits, Earlier)[1]

\* Lines 507-511: `[...user.benefits].sort((a, b) => dateB - dateA)[0]`.
LatestBenefit(benefits) ==
    LET Later(a, b) == TimeOf(a.date) > TimeOf(b.date)
    IN  Sorted(benefits, Later)[1]

\* Lines 514-530: the list a user is pushed to ("" for none).
StatusBucket(status) ==
    LET lower == ToLowerCase(status.v)
    IN  IF lower = "pendiente" THEN "pending"
        ELSE IF lower = "canjeado" \/ lower = "entregado" THEN "used"
        ELSE IF lower = "no seleccionó" THEN "notSelected"
        ELSE ""

\* Lines 462-549: getUserBenefitStatus past its fetch.
getUserBenefitStatus(month, benefitsData) ==
    LET Scoped(benefit) == InMonth(benefit, month.v)
        filteredBenefits ==
            IF Truthy(month) THEN SelectSeq(benefitsData, Scoped) ELSE benefitsData
        Named(benefit) ==
            Truthy(Prop(benefit, "Id_usuario")) /\ Truthy(Prop(benefit, "Nombre"))
        grouped == SelectSeq(filteredBenefits, Named)
        UserId(benefit) == benefit.Id_usuario.v
        userIds == Distinct(Map(grouped, UserId))
        User(userId) ==
            LET Own(benefit) == benefit.Id_usuario.v = userId
                own == SelectSeq(grouped, Own)
                benefits == Map(own, BenefitEntry)
            IN  [id |-> userId, name |-> own[1].Nombre, benefits |-> benefits,
                 latestBenefit |-> LatestBenefit(benefits)]
        users == Map(userIds, User)
        Pending(user) == StatusBucket(user.latestBenefit.status) = "pending"
        Used(user) == StatusBucket(user.latestBenefit.status) = "used"
        NotSelected(user) == StatusBucket(user.latestBenefit.status) = "notSelected"
        usersWithPendingBenefits == SelectSeq(users, Pending)
        usersWithUsedBenefits == SelectSeq(users, Used)
        usersWithNotSelectedBenefits == SelectSeq(users, NotSelected)
    IN  JsObj([totalUsers |-> Len(userIds),
               usersWithPendingBenefits |-> Sorted(usersWithPendingBenefits, NameBefore),
               usersWithUsedBenefits |-> Sorted(usersWithUsedBenefits, NameBefore),
               usersWithNotSelectedBenefits |->
                   Sorted(usersWithNotSelectedBenefits, NameBefore),
               pendingCount |-> Len(usersWithPendingBenefits),
               usedCount |-> Len(usersWithUsedBenefits),
               notSelectedCount |-> Len(usersWithNotSelectedBenefits)])

\* Array.prototype.filter(...).length
Count(list, Test(_)) == Len(SelectSeq(list, Test))

\* `cond ? parseFloat(((n / d) * 100).toFixed(2)) : 0` with cond `d > 0`
GuardedPercent(n, d) == IF d > 0 THEN Percent(n, d) ELSE JsNum(0)

\* Lines 227-244.
getMonthProgress(currentDate) ==
    LET c == CivilFromDays(currentDate.time)
        currentDay == c.d
        lastDay == CivilFromDays(NewDate(c.y, c.m, 0).time).d
    IN  JsObj([currentDay |-> currentDay, lastDay |-> lastDay,
               progress |-> (currentDay * 100) \div lastDay,
               month |-> MonthAt(c.m - 1)])

\* benefit.Estado && (benefit.Estado === 'Canjeado' || benefit.Estado === 'Entregado')
Redeemed(benefit) ==
    /\ Truthy(Prop(benefit, "Estado"))
    /\ \/ StrictEq(Prop(benefit, "Estado"), JsStr("Canjeado"))
       \/ StrictEq(Prop(benefit, "Estado"), JsStr("Entregado"))

\* Lines 257-317: getRedemptionRate past its fetch.
getRedemptionRate(date, benefitsData) ==
    LET dateStr == toLocaleDateString(date)
        currentMonth == MonthAt(getMonth(date))
        Current(benefit) == InMonth(benefit, currentMonth)
        currentMonthBenefits == SelectSeq(benefitsData, Current)
        redeemedBenefits == SelectSeq(currentMonthBenefits, Redeemed)
        totalBenefits == Len(currentMonthBenefits)
        totalRedeemed == Len(redeemedBenefits)
        OnDate(benefit) ==
            /\ Truthy(Prop(benefit, "Fecha_de_eleccion"))
            /\ Truthy(parseDate(benefit.Fecha_de_eleccion))
            /\ toLocaleDateString(parseDate(benefit.Fecha_de_eleccion)) = dateStr
        benefitsRedeemedOnDate == SelectSeq(redeemedBenefits, OnDate)
    IN  JsObj([date |-> dateStr, month |-> currentMonth,
               totalBenefits |-> totalBenefits, totalRedeemed |-> totalRedeemed,
               redemptionRate |-> GuardedPercent(totalRedeemed, totalBenefits),
               redeemedOnDate |-> Len(benefitsRedeemedOnDate),
               dailyRate |-> GuardedPercent(Len(benefitsRedeemedOnDate), totalBenefits)])

\* monthOrder[month] for the calendar months (the months of the model's
\* records are all calendar months).
MonthOrder(month) ==
    IF \E i \in DOMAIN months : months[i] = month
    THEN CHOOSE i \in DOMAIN months : months[i] = month
    ELSE 0

\* benefit.Estado lower-cased is one of the statuses.
StatusIn(benefit, statuses) ==
    /\ Truthy(Prop(benefit, "Estado"))
    /\ ToLowerCase(benefit.Estado.v) \in statuses

\* Lines 336-444: getHistoricalRedemptionRate past its fetch.
getHistoricalRedemptionRate(benefitsData) ==
    LET Dated(benefit) ==
            /\ Truthy(Prop(benefit, "Mes_de_beneficio"))
            /\ ~StrictEq(benefit.Mes_de_beneficio, JsStr("N/A"))
        dated == SelectSeq(benefitsData, Dated)
        MonthKey(benefit) == ToLowerCase(benefit.Mes_de_beneficio.v)
        monthKeys == Distinct(Map(dated, MonthKey))
        MonthData(month) ==
            LET Own(benefit) == MonthKey(benefit) = month
                own == SelectSeq(dated, Own)
                IsRedeemed(benefit) == StatusIn(benefit, {"canjeado", "entregado"})
                IsPending(benefit) == StatusIn(benefit, {"pendiente"})
                IsNotSelected(benefit) == StatusIn(benefit, {"no seleccionó"})
            IN  [total |-> Len(own), redeemed |-> Count(own, IsRedeemed),
                 pending |-> Count(own, IsPending),
                 notSelected |-> Count(own, IsNotSelected)]
        MonthlyRate(month) ==
            LET monthData == MonthData(month)
            IN  [month |-> month, total |-> monthData.total,
                 redeemed |-> monthData.redeemed, pending |-> monthData.pending,
                 notSelected |-> monthData.notSelected,
                 redemptionRate |-> GuardedPercent(monthData.redeemed, monthData.total),
                 pendingRate |-> GuardedPercent(monthData.pending, monthData.total),
                 notSelectedRate |->
                     GuardedPercent(monthData.notSelected, monthData.total)]
        InOrder(a, b) == MonthOrder(a.month) < MonthOrder(b.month)
        totalBenefits == Len(dated)
        totalRedeemed == Count(dated, Redeemed)
        NotDecember(month) == month # "diciembre"
        otherMonths == SelectSeq(monthKeys, NotDecember)
        hasDecember == \E k \in DOMAIN monthKeys : monthKeys[k] = "diciembre"
        decemberData == MonthData("diciembre")
        RECURSIVE SumOver(_, _)
        SumOver(list, field) ==
            IF list = <<>> THEN 0
            ELSE MonthData(Head(list))[field] + SumOver(Tail(list), field)
        otherMonthsTotal == SumOver(otherMonths, "total")
        otherMonthsRedeemed == SumOver(otherMonths, "redeemed")
        \* difference = decemberRate - otherMonthsRate, as one fraction
        cross == decemberData.redeemed * otherMonthsTotal
                 - otherMonthsRedeemed * decemberData.total
    IN  JsObj([monthlyRates |-> Sorted(Map(monthKeys, MonthlyRate), InOrder),
               totalBenefits |-> totalBenefits, totalRedeemed |-> totalRedeemed,
               globalRate |-> GuardedPercent(totalRedeemed, totalBenefits),
               comparisonWithDecember |->
                 IF hasDecember /\ Len(otherMonths) > 0
                 THEN JsObj([decemberRate |->
                                GuardedPercent(decemberData.redeemed, decemberData.total),
                             otherMonthsRate |->
                                GuardedPercent(otherMonthsRedeemed, otherMonthsTotal),
                             difference |->
                                Percent(cross, decemberData.total * otherMonthsTotal),
                             percentageDifference |->
                                Percent(cross, decemberData.total * otherMonthsRedeemed),
                             isHigher |-> cross > 0])
                 ELSE Null])

\* Lines 565-581 and 672-688: the month the calculator works on.
TargetMonth(month, currentDate) ==
    IF Truthy(month) THEN month.v ELSE MonthAt(getMonth(currentDate))

LocaleCompareMessage == "Cannot read properties of undefined (reading 'localeCompare')"

\* Lines 601-605: the record of a user that sorts first, latest date first.
LatestRecord(benefits) ==
    LET Later(a, b) == TimeOf(Prop(a, "Fecha_de_eleccion"))
                       > TimeOf(Prop(b, "Fecha_de_eleccion"))
    IN  Sorted(benefits, Later)[1]

\* Lines 607-618: the entry of an active user.
ActiveUser(userId, latestBenefit) ==
    [id |-> userId, name |-> Prop(latestBenefit, "Nombre"),
     generation |-> Prop(latestBenefit, "Generacion"),
     gender |-> Prop(latestBenefit, "H_M"),
     latestBenefit |->
       [selected |-> Either(Prop(latestBenefit, "Beneficio_seleccionado"),
                            JsStr("No seleccionado")),
        status |-> Either(Prop(latestBenefit, "Estado"), JsStr("Desconocido")),
        date |-> Prop(latestBenefit, "Fecha_de_eleccion"),
        category |-> Prop(latestBenefit, "Categoria")]]

\* Line 623: the label of a user's gender.
GenderOf(user) ==
    IF StrictEq(user.gender, JsStr("H")) THEN "Hombres"
    ELSE IF StrictEq(user.gender, JsStr("M")) THEN "Mujeres"
    ELSE "No especificado"

\* Line 630: user.generation || 'No especificado'
GenerationOf(user) == Either(user.generation, JsStr("No especificado")).v

\* A user whose latest record has no name, and the entry the comparator of
\* the sort reads for `b.name` (the text "undefined" for such a user).
Nameless(user) == user.name.t # "string"
Named(user) == [user EXCEPT !.name = IF Nameless(user) THEN JsStr("undefined") ELSE @]

\* Lines 622-656: the groups and the sorted list of the active users.  The
\* sort calls a.name.localeCompare: with two users or more and a user
\* without a name it throws when the engine passes that user as `a`
\* (aFirst), which the language leaves to the engine unless no user has a
\* name.
ActiveUsersReport(targetMonth, activeUsers, aFirst) ==
    LET GenderGroup(gender) ==
            LET In(user) == GenderOf(user) = gender
            IN  [gender |-> gender, count |-> Count(activeUsers, In),
                 percentage |-> Percent(Count(activeUsers, In), Len(activeUsers))]
        GenerationGroup(generation) ==
            LET In(user) == GenerationOf(user) = generation
            IN  [generation |-> generation, count |-> Count(activeUsers, In),
                 percentage |-> Percent(Count(activeUsers, In), Len(activeUsers))]
        ByName(a, b) == NameBefore(Named(a), Named(b))
    IN  IF /\ Len(activeUsers) >= 2
           /\ Count(activeUsers, Nameless) > 0
           /\ aFirst \/ Count(activeUsers, Nameless) = Len(activeUsers)
        THEN JsObj([error |-> ErrorPrefix("active-users") \o LocaleCompareMessage])
        ELSE JsObj([month |-> targetMonth,
                    totalActiveUsers |-> Len(activeUsers),
                    activeUsers |-> Sorted(activeUsers, ByName),
                    byGender |-> Map(Distinct(Map(activeUsers, GenderOf)), GenderGroup),
                    byGeneration |->
                        Map(Distinct(Map(activeUsers, GenerationOf)), GenerationGroup)])

\* Lines 596-619: the active users of the records of the month, one for
\* each distinct truthy Id_usuario.
ActiveUsersAmong(monthBenefits) ==
    LET Id(benefit) == Prop(benefit, "Id_usuario")
        User(userId) ==
            LET Own(benefit) == StrictEq(Id(benefit), userId)
            IN  ActiveUser(userId, LatestRecord(SelectSeq(monthBenefits, Own)))
    IN  Map(Distinct(SelectSeq(Map(monthBenefits, Id), Truthy)), User)

\* Lines 589-592: the records of the month.
BenefitsOfMonth(benefitsData, targetMonth) ==
    LET Target(benefit) == InMonth(benefit, targetMonth)
    IN  SelectSeq(benefitsData, Target)

\* Lines 589-656: getActiveUsersInMonth past its fetch.
getActiveUsersInMonth(month, benefitsData, currentDate, aFirst) ==
    ActiveUsersReport(
        TargetMonth(month, currentDate),
        ActiveUsersAmong(BenefitsOfMonth(benefitsData, TargetMonth(month, currentDate))),
        aFirst)

\* benefits.reduce((sum, benefit) => sum + (benefit[field] || 0), 0)
RECURSIVE Total(_, _)
Total(benefits, field) ==
    IF benefits = <<>> THEN JsNum(0)
    ELSE JsPlus(Total(SubSeq(benefits, 1, Len(benefits) - 1), field),
                Either(Prop(benefits[Len(benefits)], field), JsNum(0)))

\* Line 744: parseFloat(((data.investment / totalInvestment) * 100).toFixed(2))
CategoryShare(investment, totalInvestment) == JsPercent(investment, totalInvestment)

\* Lines 696-746: getMonthlyInvestment past its fetch.
getMonthlyInvestment(month, benefitsData, currentDate) ==
    LET targetMonth == TargetMonth(month, currentDate)
        Target(benefit) == InMonth(benefit, targetMonth)
        monthBenefits == SelectSeq(benefitsData, Target)
        totalInvestment == Total(monthBenefits, "Inversion")
        totalRefund == Total(monthBenefits, "Devolucion")
        Category(benefit) ==
            Either(Prop(benefit, "Categoria"), JsStr("No especificado")).v
        CategoryData(category) ==
            LET In(benefit) == Category(benefit) = category
                own == SelectSeq(monthBenefits, In)
                investment == Total(own, "Inversion")
            IN  [category |-> category, investment |-> investment,
                 count |-> Len(own),
                 percentage |-> CategoryShare(investment, totalInvestment)]
        Larger(a, b) ==
            LET d == JsMinus(b.investment, a.investment)
            IN  d.t = "number" /\ d.v < 0
    IN  JsObj([month |-> targetMonth,
               totalInvestment |-> totalInvestment,
               totalRefund |-> totalRefund,
               netInvestment |-> JsMinus(totalInvestment, totalRefund),
               countBenefits |-> Len(monthBenefits),
               investmentByCategory |->
                   Sorted(Map(Distinct(Map(monthBenefits, Category)), CategoryData),
                          Larger)])

----------------------------------------------------------------------------
(* The analytics commands run on the fetched records (SpecAnalytics).       *)

\* Lines 1286-1299: the date parameter of redemption-rate; `new Date()` is
\* kept when the value is no string or no date.
RECURSIVE DateParam(_, _)
DateParam(analysisParams, date) ==
    IF analysisParams = <<>> THEN date
    ELSE LET param == Head(analysisParams)
         IN  DateParam(Tail(analysisParams),
                 IF param.field = "date" /\ param.operator = "=="
                    /\ param.value.t = "string"
                 THEN Either(parseDate(param.value), date)
                 ELSE date)

\* The aggregate of the calculator of a kind on the fetched records:
\* currentDate is its `new Date()`, aFirst the argument order of the
\* engine's sort.
Aggregate(kind, analysisParams, benefitsData, currentDate, aFirst) ==
    CASE kind = "redemption-rate" ->
            getRedemptionRate(DateParam(analysisParams, currentDate), benefitsData)
      [] kind = "historical-rate" -> getHistoricalRedemptionRate(benefitsData)
      [] kind = "benefit-status" ->
            getUserBenefitStatus(MonthParam(analysisParams, Null), benefitsData)
      [] kind = "active-users" ->
            getActiveUsersInMonth(MonthParam(analysisParams, Null), benefitsData,
                                  currentDate, aFirst)
      [] kind = "investment" ->
            getMonthlyInvestment(MonthParam(analysisParams, Null), benefitsData,
                                 currentDate)

AggregateKinds ==
    {"redemption-rate", "historical-rate", "benefit-status", "active-users",
     "investment"}

\* The calculator call c with its aggregate computed.  top-categories and
\* compare-december keep the summary of Calculator.
Computed(kind, analysisParams, c, currentDate, aFirst) ==
    IF kind = "month-progress"
    THEN [c EXCEPT !.value = getMonthProgress(currentDate)]
    ELSE IF kind \in AggregateKinds /\ "analysis" \in DOMAIN c.value.v
    THEN [c EXCEPT !.value =
             Aggregate(kind, analysisParams, c.f.data.v, currentDate, aFirst)]
    ELSE c

\* One calculator call of an analytics command.
Report(command, failAt, currentDate, aFirst) ==
    Computed(PartText(Split(command, ":"), 3), ParamsOf(Split(command, ":")),
             Calculator(PartText(Split(command, ":"), 3),
                        ParamsOf(Split(command, ":")), failAt),
             currentDate, aFirst)

\* The exception of the fetch leaves the calculator and reaches the catch
\* block of the loop.
Pushed_FetchUncaught(command, c) ==
    IF c.fetched /\ c.f.threw
    THEN Outcome(<<ErrorOf(command, c.f.message)>>, "outer", c.f.storeThrew, c.f)
    ELSE Outcome(<<ResultOf(command, c.value)>>, "none", FALSE,
                 IF c.fetched THEN c.f ELSE CacheKept)

\* Lines 1271-1433 for a command of a known analysis type: the value of the
\* calculator call c is pushed as the result.
Pushed(command, c) ==
    Outcome(<<ResultOf(command, c.value)>>, "none",
            c.fetched /\ c.f.storeThrew,
            IF c.fetched THEN c.f ELSE CacheKept)

ReportOutcome(command, failAt, currentDate, aFirst) ==
    Pushed(command, Report(command, failAt, currentDate, aFirst))

\* The records the store may hold.
BenefitRecords ==
    << [Id_usuario |-> JsStr("u1"), Nombre |-> JsStr("Ana"), H_M |-> JsStr("M"),
        Mes_de_beneficio |-> JsStr("diciembre"), Estado |-> JsStr("Canjeado"),
        Fecha_de_eleccion |-> JsStr("15/12/2024"), Inversion |-> JsNum(1000),
        Categoria |-> JsStr("Bienestar")],
       [Id_usuario |-> JsStr("u1"), Nombre |-> JsStr("Ana"),
        Mes_de_beneficio |-> JsStr("Diciembre"), Estado |-> JsStr("Pendiente"),
        Fecha_de_eleccion |-> JsStr("20/12/2024")],
       [Id_usuario |-> JsStr("u1"), Nombre |-> JsStr("Ana"),
        Mes_de_beneficio |-> JsStr("enero"), Estado |-> JsStr("Pendiente")],
       [Id_usuario |-> JsStr("u2"), Nombre |-> JsStr("Luis"), H_M |-> JsStr("H"),
        Mes_de_beneficio |-> JsStr("diciembre"),
        Fecha_de_eleccion |-> JsStr("pronto"), Inversion |-> JsStr("N/A")],
       [Id_usuario |-> JsStr("u1"),
        Mes_de_beneficio |-> JsStr("diciembre"), Estado |-> JsStr("No seleccionó"),
        Fecha_de_eleccion |-> JsStr("25/12/2024")],
       [Id_usuario |-> JsStr("u2"), Nombre |-> JsStr("Luis"),
        Mes_de_beneficio |-> JsStr("enero"), Estado |-> JsStr("Entregado"),
        Fecha_de_eleccion |-> JsStr("03/01/25"), Inversion |-> JsNum(500)] >>

\* The store keys of a collection, in key order.
RecordKeys == <<"k1", "k2", "k3", "k4">>

\* The store whose path "firestore" holds the records (nothing when there
\* are none: the store keeps no empty node).
StoreOf(records) ==
    [p \in Paths |->
        IF p = "firestore" /\ records # <<>>
        THEN JsObj([i \in DOMAIN records |-> [key |-> RecordKeys[i], item |-> records[i]]])
        ELSE Null]

RecordLists ==
    SeqsUpTo({BenefitRecords[i] : i \in DOMAIN BenefitRecords}, MaxRecords)

ReportCommands ==
    { "firebase:analytics:month-progress",
      "firebase:analytics:redemption-rate",
      "firebase:analytics:redemption-rate:date=15/12/2024",
      "firebase:analytics:historical-rate",
      "firebase:analytics:benefit-status",
      "firebase:analytics:benefit-status:month=Diciembre",
      "firebase:analytics:active-users",
      "firebase:analytics:active-users:month=enero",
      "firebase:analytics:investment",
      "firebase:analytics:investment:month=diciembre",
      "firebase:analytics:top-categories",
      "firebase:analytics:compare-december" }

\* The days `new Date()` may give: 20 December 2024 and 3 January 2025.
Today == {NewDate(2024, 11, 20), NewDate(2025, 0, 3)}

InitAnalytics ==
    /\ ServiceInit
    /\ isConnected = TRUE
    /\ \E records \in RecordLists : db = StoreOf(records)
    /\ handler = "MultiModelHandler"
    /\ pc = "stage2"
    /\ \E command \in ReportCommands : geminiResponse = [commands |-> <<command>>]
    /\ IdleFlow
    /\ NoCallers

\* One iteration of the loop for an analytics command; the history keeps
\* the day and the records the calculator ran on.
RunReport ==
    /\ AtCommand
    /\ IsAnalytics(commands[idx])
    /\ \E failAt \in 0..Len(FetchPaths), currentDate \in Today, aFirst \in BOOLEAN :
          \E o \in {ReportOutcome(commands[idx], failAt, currentDate, aFirst)} :
              /\ results' = results \o o.pushed
              /\ trace' = Append(trace,
                    [command |-> commands[idx], prefixed |-> Prefixed(commands[idx]),
                     caught |-> o.caught, storeThrew |-> o.storeThrew,
                     pushed |-> Len(o.pushed), slot |-> Len(results) + 1,
                     params |-> ParsedBy(commands[idx]),
                     currentDate |-> currentDate,
                     records |-> IF o.cachedData.t = "null" THEN <<>>
                                 ELSE o.cachedData.v])
              /\ cachedData' = o.cachedData
              /\ lastDataFetch' = o.lastDataFetch
              /\ nextId' = o.nextId
              /\ idx' = idx + 1
              /\ pc' = AfterIteration(o.caught)
    /\ UNCHANGED <<isConnected, db, now, started, handler, geminiResponse,
                   commands, invoked, response, callerVars>>

NextAnalytics == ExecuteCommands \/ RunReport

SpecAnalytics == InitAnalytics /\ [][NextAnalytics]_vars

----------------------------------------------------------------------------
(* Properties of the batch runner (checked on SpecBatch).                   *)

RECURSIVE CommandsOf(_)
CommandsOf(rs) ==
    IF rs = <<>> THEN <<>> ELSE <<Head(rs).command>> \o CommandsOf(Tail(rs))

PrefixedCommands == SelectSeq(commands, Prefixed)
HasSkipped == \E i \in 1..Len(commands) : ~Prefixed(commands[i])
Returned == pc = "stage2done"

\* C1, as stated: whatever the batch, the returned list holds exactly one
\* result per prefixed command, in the order given, and nothing for the
\* strings without the prefix.
C1_OnePerPrefixedCommand ==
    Returned => CommandsOf(results) = PrefixedCommands

\* C1, amended: a connected service returns exactly one result per prefixed
\* command, in order, and none for the other strings; a service that is not
\* connected returns the single connection error whatever the batch.
C1_OnePerPrefixedCommandWhenConnected ==
    /\ (Returned /\ isConnected) => CommandsOf(results) = PrefixedCommands
    /\ (Returned /\ ~isConnected) => results = <<ConnectionError>>

\* A connected run over a batch that mixes a skipped string with prefixed ones.
C1_MixedBatchReturned ==
    /\ Returned /\ isConnected
    /\ HasSkipped
    /\ Len(results) >= 1
    /\ Len(results) < Len(commands)

\* C2: a command whose execution raised an exception has a result whose error
\* field is set, and the loop goes on: every command of the batch is
\* iterated, in order, before the runner returns.
C2_ExceptionDoesNotAbort ==
    /\ \A i \in 1..Len(trace) :
          trace[i].caught # "none" =>
              /\ trace[i].pushed = 1
              /\ results[trace[i].slot].command = trace[i].command
              /\ IsSet(results[trace[i].slot].error)
    /\ (Returned /\ isConnected) =>
          /\ Len(trace) = Len(commands)
          /\ \A i \in 1..Len(trace) : trace[i].command = commands[i]

\* The runner returned after an exception in a command that was not the last.
C2_LaterCommandRan ==
    /\ Returned
    /\ \E i \in 1..Len(trace) : trace[i].caught # "none" /\ i < Len(trace)

\* C3: every returned CommandResult has exactly one of result and error set.
C3_ExactlyOneField ==
    \A i \in 1..Len(results) : IsSet(results[i].result) # IsSet(results[i].error)

\* Results of both kinds, among them a null payload, have been returned.
C3_BothKindsReturned ==
    /\ Returned
    /\ \E i \in 1..Len(results) : IsSet(results[i].error)
    /\ \E i \in 1..Len(results) :
          IsSet(results[i].result) /\ results[i].result[1] = Null

\* C4, as stated: when a store call fails while a command executes, that
\* command's CommandResult carries the failure in its error field.
C4_StoreFailureInErrorField ==
    \A i \in 1..Len(trace) :
        trace[i].storeThrew =>
            /\ trace[i].pushed = 1
            /\ IsSet(results[trace[i].slot].error)

\* The store failed inside an analytics calculator and the command's
\* CommandResult has no error field: the failure sits in the result payload.
C4_FailureInResultPayload ==
    \E i \in 1..Len(trace) :
        /\ trace[i].storeThrew
        /\ IsAnalytics(trace[i].command)
        /\ ~IsSet(results[trace[i].slot].error)
        /\ IsSet(results[trace[i].slot].result)
        /\ "error" \in DOMAIN results[trace[i].slot].result[1].v

----------------------------------------------------------------------------
(* Properties of the pipeline (checked on Spec).                            *)

Answered == pc = "done"
Stage2Invoked == \E i \in 1..Len(invoked) : invoked[i] = "executeCommands"
Stage3Invoked ==
    \E i \in 1..Len(invoked) :
        invoked[i] \in {"callChatGPT", "interpretResults", "model"}
ModelCalled == \E i \in 1..Len(invoked) : invoked[i] = "model"
AllResultsFailed == Len(results) > 0 /\ EveryError(results)

\* C5, as stated: when every CommandResult of Stage 2 reports an error, the
\* query is answered with the fixed retry sentence and Stage 3 is not invoked.
C5_AllErrorsGiveRetrySentence ==
    (Answered /\ Stage2Invoked /\ AllResultsFailed) =>
        /\ response = Set(RetryMessage)
        /\ ~Stage3Invoked

\* GeminiAdapter answered a query whose commands all failed with the Stage 1
\* message, through interpretResults.
C5_AdapterAnswersWithStage1Message ==
    /\ Answered /\ handler = "GeminiAdapter"
    /\ Stage2Invoked /\ AllResultsFailed
    /\ response = Set(geminiResponse.userMessage)
    /\ response # Set(RetryMessage)
    /\ Stage3Invoked /\ ~ModelCalled

\* MultiModelHandler answered such a query with the retry sentence.
C5_HandlerAnswersWithRetrySentence ==
    /\ Answered /\ handler = "MultiModelHandler"
    /\ Stage2Invoked /\ AllResultsFailed
    /\ response = Set(RetryMessage)
    /\ ~Stage3Invoked

\* C6, as stated: when Stage 1 yields no command, the query is answered with
\* the clarification message and neither Stage 2 nor Stage 3 is invoked.
C6_ZeroCommandsGiveClarification ==
    (Answered /\ Len(geminiResponse.commands) = 0) =>
        /\ response \in {Set(ClarificationMessage), Set(AdapterClarificationMessage)}
        /\ ~Stage2Invoked
        /\ ~Stage3Invoked

\* What the code does for no command: no stage is invoked, MultiModelHandler
\* answers with its clarification sentence, GeminiAdapter with the Stage 1
\* message.
C6_ZeroCommandsSkipStages ==
    (Answered /\ Len(geminiResponse.commands) = 0) =>
        /\ response = Set(IF handler = "MultiModelHandler" THEN ClarificationMessage
                          ELSE geminiResponse.userMessage)
        /\ invoked = <<>>

\* GeminiAdapter answered a query without commands with the Stage 1 message.
C6_AdapterAnswersWithStage1Message ==
    /\ Answered /\ handler = "GeminiAdapter"
    /\ Len(geminiResponse.commands) = 0
    /\ response = Set(geminiResponse.userMessage)
    /\ response # Set(AdapterClarificationMessage)

\* C7, as stated: processMessage returns a non-empty text whatever Stage 1,
\* the store and the Stage 3 model do.
C7_ResponseNeverEmpty ==
    Answered => (IsSet(response) /\ response[1] # "")

\* A query was answered with the empty string the Stage 3 model replied.
C7_EmptyModelReplyReturned ==
    /\ Answered
    /\ ModelCalled
    /\ response = Set("")

\* Every flow that is not waiting has an answer: no exception leaves
\* processMessage.
C7_AnswerIsAText == Answered <=> IsSet(response)

----------------------------------------------------------------------------
(* Properties of the snapshot cache (checked on SpecCache and SpecRace).    *)

\* The access found a snapshot cached, asked for the cache and came less
\* than the TTL after that snapshot's fetch time.
FoundFresh(e) ==
    e.cachedBefore # 0 /\ e.useCache /\ e.entered - e.fetchedBefore < cacheTTL

ServedFromCache(e) ==
    /\ e.calls = 0 /\ ~e.threw
    /\ e.returned = e.cachedBefore
    /\ e.cachedAfter = e.cachedBefore /\ e.fetchedAfter = e.fetchedBefore

Refreshed(e) ==
    /\ e.calls >= 1 /\ ~e.threw
    /\ e.returned \notin {0, e.cachedBefore}
    /\ e.cachedAfter = e.returned /\ e.fetchedAfter = e.entered

Failed(e) ==
    /\ e.calls >= 1 /\ e.threw
    /\ e.returned = 0
    /\ e.cachedAfter = e.cachedBefore /\ e.fetchedAfter = e.fetchedBefore

\* C8, as stated: an access is served from the cache, without a store call,
\* exactly when a snapshot is cached, useCache is true and its age is below
\* the TTL; every other access calls the store, caches what it fetched and
\* returns it.
C8_FreshServedElseRefreshed ==
    \A i \in 1..Len(log) :
        IF FoundFresh(log[i]) THEN ServedFromCache(log[i]) ELSE Refreshed(log[i])

\* C8, amended: ... every other access calls the store; when the store
\* yields data the access caches it with the time read at entry and returns
\* it, and when the store fails or holds no data the access throws and
\* leaves the cache as it was.
C8_FreshServedElseFetched ==
    \A i \in 1..Len(log) :
        IF FoundFresh(log[i]) THEN ServedFromCache(log[i])
        ELSE Refreshed(log[i]) \/ Failed(log[i])

\* A snapshot aged exactly the TTL was refreshed, after an access was served
\* from the cache.
C8_ExpiredSnapshotRefreshed ==
    \E i, j \in 1..Len(log) :
        /\ i < j
        /\ FoundFresh(log[i])
        /\ log[j].useCache /\ log[j].cachedBefore # 0
        /\ log[j].entered - log[j].fetchedBefore = cacheTTL
        /\ Refreshed(log[j])

\* An access that found nothing fresh threw.
C8_AccessThrew ==
    \E i \in 1..Len(log) : ~FoundFresh(log[i]) /\ log[i].threw

\* C9: two accesses with useCache = true that both come less than the TTL
\* after the fetch of the snapshot they find cached both return that same
\* array object, with the same fetch time.
C9_SameSnapshotWithinTTL ==
    \A i, j \in 1..Len(log) :
        (/\ FoundFresh(log[i]) /\ FoundFresh(log[j])
         /\ log[i].cachedBefore = log[j].cachedBefore)
        => /\ log[i].calls = 0 /\ log[j].calls = 0
           /\ log[i].returned = log[j].returned
           /\ log[i].returned = log[i].cachedBefore
           /\ log[i].fetchedAfter = log[j].fetchedAfter
           /\ log[i].fetchedBefore = log[j].fetchedBefore

\* Two accesses at different times, both within the TTL of the same snapshot.
C9_TwoAccessesWithinTTL ==
    \E i, j \in 1..Len(log) :
        /\ i < j
        /\ FoundFresh(log[i]) /\ FoundFresh(log[j])
        /\ log[i].cachedBefore = log[j].cachedBefore
        /\ log[i].entered < log[j].entered

AwaitingCallers == {c \in Callers : call[c].at = "await"}

\* C10: every caller suspended in a refresh has its own store request in
\* flight: k callers that found nothing fresh make k requests.
C10_EachCallerFetches ==
    /\ \A c \in AwaitingCallers : [caller |-> c, k |-> call[c].k] \in pending
    /\ Cardinality(pending) = Cardinality(AwaitingCallers)

\* Two callers found no snapshot and both wait for the same path.
C10_TwoRefreshesInFlight ==
    /\ cachedData = Null
    /\ \E c, d \in AwaitingCallers : c # d /\ call[c].k = call[d].k
    /\ Cardinality(pending) >= 2

----------------------------------------------------------------------------
(* Properties of overlapping refreshes (checked on SpecRace).               *)

Writes == {i \in DOMAIN log : ~log[i].threw}

LastWrite == CHOOSE i \in Writes : \A j \in Writes : j <= i

\* C11: once every refresh has completed, the cache holds the array and
\* the fetch time written by the refresh that completed last, whatever the
\* refreshes that completed before it wrote (last-writer-wins).
C11_LastWriterWins ==
    (pending = {} /\ Writes # {}) =>
        /\ IdOf(cachedData) = log[LastWrite].wrote
        /\ lastDataFetch = log[LastWrite].entered
        /\ \A i \in Writes : log[i].cachedAfter = log[i].wrote

\* Two refreshes overlapped, both completed with data, and nothing is in
\* flight any more.
C11_OverlappingRefreshesCompleted ==
    /\ pending = {}
    /\ \E i, j \in Writes :
          /\ i < j
          /\ log[i].overlapped
          /\ log[j].cachedBefore = log[i].wrote
          /\ IdOf(cachedData) = log[j].wrote

\* The cache as a pair <<records identity, fetchedAt>>.
CachePair == <<IdOf(cachedData), lastDataFetch>>

\* C12: at every point the cached records and fetchedAt are those of one
\* completed fetch (or both are still the initial empty ones), the cached
\* records are the whole collection, and a refresh that failed left the
\* pair as it found it.
C12_SnapshotReplacedWholesale ==
    /\ \/ CachePair = <<0, 0>> /\ Writes = {}
       \/ \E i \in Writes : CachePair = <<log[i].wrote, log[i].entered>>
    /\ cachedData.t # "null" => cachedData.v = ObjectValues(SampleBenefits.v)
    /\ \A i \in DOMAIN log :
          log[i].threw =>
              /\ log[i].cachedAfter = log[i].cachedBefore
              /\ log[i].fetchedAfter = log[i].fetchedBefore

\* A refresh failed after a snapshot was cached, while another refresh is
\* still in flight: the snapshot of the earlier fetch is still cached.
C12_FailedRefreshKeptSnapshot ==
    /\ pending # {}
    /\ \E i \in DOMAIN log :
          /\ log[i].threw
          /\ log[i].cachedBefore # 0
          /\ IdOf(cachedData) = log[i].cachedBefore

----------------------------------------------------------------------------
(* Properties of the read commands (checked on SpecRead).                   *)

\* The iterations that ran command `operation` on the read path and left a
\* result (not an error).
Reads(operation) ==
    {i \in DOMAIN trace :
        /\ trace[i].pushed = 1
        /\ StartsWith(trace[i].command, ReadCommand(operation, ""))
        /\ IsSet(results[trace[i].slot].result)}

ResultAt(i) == results[trace[i].slot].result[1]

FiltersAt(i) == ParamsOf(Split(trace[i].command, ":"))

\* The path resolution the specification describes: the first path of the
\* list that holds data answers.
ResolutionOrder == <<"realtime/" \o ReadPath, ReadPath, "firestore">>

Holding == {k \in DOMAIN ResolutionOrder : db[ResolutionOrder[k]].t # "null"}

ResolvedEntries ==
    IF Holding = {} THEN <<>>
    ELSE db[ResolutionOrder[CHOOSE k \in Holding : \A h \in Holding : k <= h]].v

EntriesWhere(P(_)) == {k \in DOMAIN ResolvedEntries : P(ResolvedEntries[k])}

KeysWhere(P(_)) == {ResolvedEntries[k].key : k \in EntriesWhere(P)}

IdsOf(records) == {records[k].id.v : k \in DOMAIN records}

HasFields(entry, queryParams) ==
    \A k \in DOMAIN queryParams : queryParams[k].field \in DOMAIN entry.item

\* C13: a query returns only records that have every filtered field, a
\* count counts no more than those, and a record lacking a field makes no
\* read command fail: without a store failure the command has a result.
C13_MissingFieldExcludes ==
    /\ \A i \in Reads("query") :
          LET WithFields(e) == HasFields(e, FiltersAt(i))
          IN  IdsOf(ResultAt(i).v) \subseteq KeysWhere(WithFields)
    /\ \A i \in Reads("count") :
          LET WithFields(e) == HasFields(e, FiltersAt(i))
          IN  ResultAt(i).v.count <= Cardinality(EntriesWhere(WithFields))
    /\ \A i \in DOMAIN trace :
          (trace[i].pushed = 1 /\ ~trace[i].storeThrew
             /\ \E op \in {"query", "count"} :
                    StartsWith(trace[i].command, ReadCommand(op, "")))
          => IsSet(results[trace[i].slot].result)

\* A query with a filter returned some records and left out a record that
\* lacks the filtered field.
C13_RecordWithoutFieldLeftOut ==
    \E i \in Reads("query") :
        LET Lacking(e) == ~HasFields(e, FiltersAt(i))
        IN  /\ ResultAt(i).v # <<>>
            /\ KeysWhere(Lacking) # {}
            /\ KeysWhere(Lacking) \cap IdsOf(ResultAt(i).v) = {}

\* Letters compared without regard to case.
Fold(c) == IF c \in UpperChars THEN LowerChar(c) ELSE c

EqualIgnoringCase(a, b) ==
    /\ Len(a) = Len(b)
    /\ \A k \in 1..Len(a) : Fold(Char(a, k)) = Fold(Char(b, k))

\* A filter holds on a value, as the specification defines the operators:
\* equality of strings without regard to case, of other values as they
\* are; the relational operators in the native ordering.
FilterTrue(value, param) ==
    CASE param.operator = "==" ->
           IF BothStrings(value, param.value)
           THEN EqualIgnoringCase(value.v, param.value.v)
           ELSE value = param.value
      [] param.operator = "!=" ->
           IF BothStrings(value, param.value)
           THEN ~EqualIgnoringCase(value.v, param.value.v)
           ELSE value # param.value
      [] param.operator = "<"  -> JsLt(value, param.value)
      [] param.operator = "<=" -> JsLe(value, param.value)
      [] param.operator = ">"  -> JsGt(value, param.value)
      [] param.operator = ">=" -> JsGe(value, param.value)

AllFiltersTrue(entry, queryParams) ==
    \A k \in DOMAIN queryParams :
        /\ queryParams[k].field \in DOMAIN entry.item
        /\ FilterTrue(entry.item[queryParams[k].field], queryParams[k])

\* The record is the entry's item with the entry's key under id.
EnrichedFrom(record, entry) ==
    /\ DOMAIN record = DOMAIN entry.item \cup {"id"}
    /\ record.id = JsStr(entry.key)
    /\ \A f \in DOMAIN entry.item \ {"id"} : record[f] = entry.item[f]

\* C14: a query returns, in store order and each with its key under id,
\* exactly the records on which every filter of the command holds.
C14_AllFiltersHold ==
    \A i \in Reads("query") :
        LET Matches(e) == AllFiltersTrue(e, FiltersAt(i))
            kept == SelectSeq(ResolvedEntries, Matches)
        IN  /\ Len(ResultAt(i).v) = Len(kept)
            /\ \A k \in DOMAIN kept : EnrichedFrom(ResultAt(i).v[k], kept[k])

\* A query returned a record on which one of its filters does not hold.
C14_RecordReturnedAgainstFilter ==
    \E i \in Reads("query") :
        \E k \in DOMAIN ResolvedEntries :
            /\ ResolvedEntries[k].key \in IdsOf(ResultAt(i).v)
            /\ ~AllFiltersTrue(ResolvedEntries[k], FiltersAt(i))

\* With equality and inequality filters only, a query returns exactly the
\* records on which every filter holds.
C14_EqualityFiltersConjunctive ==
    \A i \in Reads("query") :
        (\A k \in DOMAIN FiltersAt(i) : FiltersAt(i)[k].operator \in {"==", "!="})
        => LET Matches(e) == AllFiltersTrue(e, FiltersAt(i))
           IN  IdsOf(ResultAt(i).v) = KeysWhere(Matches)

\* The queries with one filter, an equality or inequality on a string.
StringEqualityQueries ==
    {i \in Reads("query") :
        /\ Len(FiltersAt(i)) = 1
        /\ FiltersAt(i)[1].operator \in {"==", "!="}
        /\ FiltersAt(i)[1].value.t = "string"}

\* The entries whose value of the filtered field is a string.
StringValued(i) ==
    {k \in DOMAIN ResolvedEntries :
        /\ FiltersAt(i)[1].field \in DOMAIN ResolvedEntries[k].item
        /\ ResolvedEntries[k].item[FiltersAt(i)[1].field].t = "string"}

\* C15: field=value returns a record with a string value exactly when the
\* value equals the filter's value without regard to case, and field!=value
\* exactly when it differs without regard to case.
C15_StringEqualityIgnoresCase ==
    \A i \in StringEqualityQueries :
        \A k \in StringValued(i) :
            LET e == ResolvedEntries[k]
                same == EqualIgnoringCase(e.item[FiltersAt(i)[1].field].v,
                                          FiltersAt(i)[1].value.v)
            IN  (e.key \in IdsOf(ResultAt(i).v))
                <=> (IF FiltersAt(i)[1].operator = "==" THEN same ELSE ~same)

\* An equality filter returned a record whose value differs from the
\* filter's value in case only, and an inequality filter left one out.
C15_MatchedAcrossCase ==
    \E i \in StringEqualityQueries :
        \E k \in StringValued(i) :
            LET e == ResolvedEntries[k]
                v == e.item[FiltersAt(i)[1].field].v
            IN  /\ v # FiltersAt(i)[1].value.v
                /\ EqualIgnoringCase(v, FiltersAt(i)[1].value.v)
                /\ (e.key \in IdsOf(ResultAt(i).v))
                   <=> (FiltersAt(i)[1].operator = "==")

\* C16: a count gives the number of records the query with the same path
\* and filters returns from the same store, and without filters the size
\* of the collection the path resolves to.
C16_CountEqualsQuerySize ==
    /\ \A i \in Reads("query"), j \in Reads("count") :
          FiltersAt(i) = FiltersAt(j)
          => ResultAt(j).v.count = Len(ResultAt(i).v)
    /\ \A j \in Reads("count") :
          FiltersAt(j) = <<>> => ResultAt(j).v.count = Len(ResolvedEntries)

\* A query and the count with the same filters both answered, with some
\* but not all of the records.
C16_CountedAFilteredQuery ==
    \E i \in Reads("query"), j \in Reads("count") :
        /\ FiltersAt(i) = FiltersAt(j)
        /\ FiltersAt(i) # <<>>
        /\ ResultAt(j).v.count >= 1
        /\ ResultAt(j).v.count < Len(ResolvedEntries)

\* C17: a read command answers from the first path of the list that holds
\* data and gives the empty outcome only when no path of the list does.
C17_AlternatePathsProbed ==
    /\ \A i \in Reads("query") :
          /\ IdsOf(ResultAt(i).v) \subseteq {ResolvedEntries[k].key : k \in DOMAIN ResolvedEntries}
          /\ FiltersAt(i) = <<>> => Len(ResultAt(i).v) = Len(ResolvedEntries)
    /\ \A i \in Reads("count") :
          /\ ResultAt(i).v.count <= Len(ResolvedEntries)
          /\ ResultAt(i).v.count = 0 /\ FiltersAt(i) = <<>> => Holding = {}
    /\ \A i \in Reads("get") :
          ResultAt(i) = Null => Holding = {}

\* A get found nothing at its own path and returned null although another
\* path of the list holds data.
C17_GetGaveUpAtNominalPath ==
    \E i \in Reads("get") :
        /\ ResultAt(i) = Null
        /\ db[ReadPath] = Null
        /\ Holding # {}

\* query and count answer from the first path of the list that holds data.
C17_QueryAndCountProbeInOrder ==
    /\ \A i \in Reads("query") :
          /\ IdsOf(ResultAt(i).v) \subseteq {ResolvedEntries[k].key : k \in DOMAIN ResolvedEntries}
          /\ FiltersAt(i) = <<>> => Len(ResultAt(i).v) = Len(ResolvedEntries)
    /\ \A i \in Reads("count") :
          /\ ResultAt(i).v.count <= Len(ResolvedEntries)
          /\ ResultAt(i).v.count = 0 /\ FiltersAt(i) = <<>> => Holding = {}

----------------------------------------------------------------------------
(* Properties of set and update (checked on SpecWrite).                     *)

WriteCommandsRun == {i \in DOMAIN trace : IsWrite(trace[i].command)}

InitialStores == {WriteStoreWith(populated) : populated \in PipelineStores}

SaysUnsupported(r, operation) ==
    /\ r.result = Absent
    /\ r.error = Set("Operación " \o operation \o " no implementada completamente")

\* C18: every set or update command gets a CommandResult whose error says
\* the operation is not supported, and the store is never written.
C18_WritesUnsupported ==
    /\ \A i \in WriteCommandsRun :
          SaysUnsupported(results[trace[i].slot], OperationOf(trace[i].command))
    /\ db \in InitialStores

\* FirebaseService ran a set or update: the document was written and the
\* command has a success result.
C18_DocumentWritten ==
    /\ handler = "ChatGPTHandler"
    /\ db \notin InitialStores
    /\ \E i \in WriteCommandsRun :
          /\ results[trace[i].slot].error = Absent
          /\ results[trace[i].slot].result[1].v.success

\* EnhancedFirebaseService answers every set or update with the error and
\* writes nothing.
C18_AnalyticsExecutorRejectsWrites ==
    EnhancedExecutor =>
        /\ \A i \in WriteCommandsRun :
              SaysUnsupported(results[trace[i].slot], OperationOf(trace[i].command))
        /\ db \in InitialStores

----------------------------------------------------------------------------
(* Properties of command strings with parts missing (checked on SpecRead).  *)

\* The string names the namespace but lacks the operation or the path.
LacksParts(command) ==
    StartsWith(command, "firebase") /\ Len(Split(command, ":")) < 3

\* C19: a command string that lacks its operation or path part gets a
\* CommandResult whose error field is set.
C19_ShortCommandRejected ==
    \A i \in DOMAIN trace :
        LacksParts(trace[i].command)
        => /\ trace[i].pushed = 1
           /\ IsSet(results[trace[i].slot].error)

\* "firebase:get" was run against the whole database and has a result, and
\* no error.
C19_ShortGetAnswered ==
    \E i \in DOMAIN trace :
        /\ trace[i].command = "firebase:get"
        /\ trace[i].pushed = 1
        /\ results[trace[i].slot].error = Absent
        /\ IsSet(results[trace[i].slot].result)

----------------------------------------------------------------------------
(* Properties of the filter parser (checked on SpecParse).                  *)

\* The clauses of the filter list the command carries.
ClausesAt(i) == Split(Split(trace[i].command, ":")[4], ",")

\* The clause has the form field<op>value: an operator character follows a
\* character that is none, and something follows the operator.
WellFormed(clause) ==
    \E j \in 2..(Len(clause) - 1) :
        Char(clause, j) \in OperatorChars /\ Char(clause, j - 1) \notin OperatorChars

EqualsSigns(clause) == {j \in 1..Len(clause) : Char(clause, j) = "="}

BeforeFirstEquals(clause) ==
    IF EqualsSigns(clause) = {} THEN clause
    ELSE SubSeq(clause, 1, (CHOOSE j \in EqualsSigns(clause) :
                               \A h \in EqualsSigns(clause) : j <= h) - 1)

AfterFirstEquals(clause) ==
    SubSeq(clause, (CHOOSE j \in EqualsSigns(clause) :
                       \A h \in EqualsSigns(clause) : j <= h) + 1, Len(clause))

Kept(clause) == WellFormed(clause) \/ Cardinality(EqualsSigns(clause)) = 1

C20_ClauseDropped ==
    \E i \in DOMAIN trace :
        /\ \E k \in DOMAIN ClausesAt(i) : EqualsSigns(ClausesAt(i)[k]) = {}
        /\ Len(trace[i].params) < Len(ClausesAt(i))

----------------------------------------------------------------------------
(* The order of the cached fetch times (checked on SpecRace).               *)

\* C30: the cached fetchedAt never decreases: no refresh that completes
\* with data replaces the cached fetch time by an older one, under any
\* interleaving of concurrent refreshes.
C30_FetchedAtNeverDecreases ==
    \A i \in Writes : log[i].fetchedAfter >= log[i].fetchedBefore

\* Two refreshes overlapped; the one that entered first completed last and
\* wrote its own, older, entry time over the newer fetch time.
C30_OlderRefreshOverwrote ==
    \E i, j \in Writes :
        /\ i < j
        /\ log[j].entered < log[i].entered
        /\ log[j].fetchedBefore = log[i].entered
        /\ log[j].fetchedAfter = log[j].entered
        /\ lastDataFetch < log[i].entered

\* What does hold: the cached fetch time is always the entry time of a
\* refresh that completed, hence never later than the clock.
C30_FetchedAtIsAnEntryTime ==
    /\ lastDataFetch <= now
    /\ \A i \in Writes : log[i].fetchedAfter = log[i].entered

----------------------------------------------------------------------------
(* Ordering filters across types (checked on SpecRead).                     *)

OrderingOperators == {"<", "<=", ">", ">="}

\* One of the two values is a string and the other a number.
MixedTypes(value, filterValue) == {value.t, filterValue.t} = {"string", "number"}

\* The record has a field that an ordering filter of the list compares with
\* a value of the other type.
MixedUnderOrdering(entry, queryParams) ==
    \E k \in DOMAIN queryParams :
        /\ queryParams[k].operator \in OrderingOperators
        /\ queryParams[k].field \in DOMAIN entry.item
        /\ MixedTypes(entry.item[queryParams[k].field], queryParams[k].value)

\* C29: under an ordering operator a record whose field value is a string
\* where the filter value is a number (or a number where it is a string) is
\* left out of the query result and of the count, and the command reports
\* no error.
C29_MixedTypeExcluded ==
    /\ \A i \in Reads("query") :
          LET Mixed(e) == MixedUnderOrdering(e, FiltersAt(i))
          IN  KeysWhere(Mixed) \cap IdsOf(ResultAt(i).v) = {}
    /\ \A i \in Reads("count") :
          LET Comparable(e) == ~MixedUnderOrdering(e, FiltersAt(i))
          IN  ResultAt(i).v.count <= Cardinality(EntriesWhere(Comparable))
    /\ \A i \in DOMAIN trace :
          (trace[i].pushed = 1 /\ ~trace[i].storeThrew
             /\ \E op \in {"query", "count"} :
                    StartsWith(trace[i].command, ReadCommand(op, "")))
          => IsSet(results[trace[i].slot].result)

\* A query whose only filter is an ordering filter returned a record whose
\* field is of the other type, and the count with the same filter counted it.
C29_MixedTypeRecordReturned ==
    \E i \in Reads("query"), j \in Reads("count") :
        LET Mixed(e) == MixedUnderOrdering(e, FiltersAt(i))
        IN  /\ FiltersAt(i) = FiltersAt(j)
            /\ Len(FiltersAt(i)) = 1
            /\ KeysWhere(Mixed) # {}
            /\ KeysWhere(Mixed) \subseteq IdsOf(ResultAt(i).v)
            /\ ResultAt(j).v.count = Len(ResultAt(i).v)

\* What does hold: a value that does not convert to a number passes every
\* ordering filter against a number, and no command fails on it.
C29_IncomparablePasses ==
    \A i \in Reads("query") :
        LET Incomparable(e) ==
                /\ Len(FiltersAt(i)) = 1
                /\ MixedUnderOrdering(e, FiltersAt(i))
                /\ \/ ToNumber(e.item[FiltersAt(i)[1].field]).t = "NaN"
                   \/ ToNumber(FiltersAt(i)[1].value).t = "NaN"
        IN  KeysWhere(Incomparable) \subseteq IdsOf(ResultAt(i).v)

----------------------------------------------------------------------------
(* Properties of the Stage 1 simulation (checked on SpecStage1).            *)

InvestmentCommand(month) == NamespacePrefix \o "analytics:investment:month=" \o month

\* C27: every call of the simulation returns exactly one command, and two
\* calls on the same text return the same command.
C27_OneCommandPerText ==
    \A i \in DOMAIN invoked :
        /\ Len(invoked[i].commands) = 1
        /\ \A j \in DOMAIN invoked :
              invoked[j].message = invoked[i].message
              => invoked[j].commands = invoked[i].commands

\* The simulation returned two commands for one text.
C27_TwoCommandsReturned ==
    \E i \in DOMAIN invoked :
        /\ handler = "GeminiAdapter"
        /\ invoked[i].message = "beneficios de enero"
        /\ Len(invoked[i].commands) = 2

\* Two calls on the same text, in different months, returned different
\* commands.
C27_SameTextOtherCommand ==
    \E i, j \in DOMAIN invoked :
        /\ invoked[i].message = invoked[j].message
        /\ invoked[i].currentMonth # invoked[j].currentMonth
        /\ invoked[i].commands # invoked[j].commands

\* What does hold: the simulation always returns one or two commands, each
\* with the namespace prefix; MultiModelHandler always returns one; on the
\* same text in the same month the commands are the same.
C27_CommandsFixedByTextAndMonth ==
    \A i \in DOMAIN invoked :
        /\ Len(invoked[i].commands) \in {1, 2}
        /\ handler = "MultiModelHandler" => Len(invoked[i].commands) = 1
        /\ \A k \in DOMAIN invoked[i].commands : Prefixed(invoked[i].commands[k])
        /\ \A j \in DOMAIN invoked :
              (/\ invoked[j].message = invoked[i].message
               /\ invoked[j].currentMonth = invoked[i].currentMonth)
              => invoked[j].commands = invoked[i].commands

\* C28: on the text "¿cuánto gastamos en diciembre?" the simulation returns
\* the investment command for december and nothing else.
C28_DecemberSpendingGivesInvestment ==
    \A i \in DOMAIN invoked :
        invoked[i].message = DecemberSpendingText
        => invoked[i].commands = <<InvestmentCommand("diciembre")>>

\* The simulation ran on that text and returned, first of all, the query
\* for the records of december.
C28_DecemberSpendingGaveQuery ==
    \E i \in DOMAIN invoked :
        /\ invoked[i].message = DecemberSpendingText
        /\ invoked[i].commands[1]
             = NamespacePrefix \o "query:userBenefits:Mes_de_beneficio=diciembre"

\* What does hold on that text: MultiModelHandler returns only the query
\* by month, GeminiAdapter the query followed by the investment command.
C28_DecemberSpendingCommands ==
    \A i \in DOMAIN invoked :
        invoked[i].message = DecemberSpendingText
        => invoked[i].commands =
             <<NamespacePrefix \o "query:userBenefits:Mes_de_beneficio=diciembre">>
             \o (IF handler = "GeminiAdapter"
                 THEN <<InvestmentCommand("diciembre")>> ELSE <<>>)

----------------------------------------------------------------------------
(* Parsing and writing back a filter list (checked on SpecRoundTrip).       *)

\* The filter expression of the command of iteration i.
ExprAt(i) == PartText(Split(trace[i].command, ":"), 4)

\* The symbol of the grammar for an operator of the parsed list.
OperatorSymbol(operator) == IF operator = "==" THEN "=" ELSE operator

\* The text of a parsed value.
ValueText(value) ==
    CASE value.t = "string"  -> value.v
      [] value.t = "number"  -> NumberText(value.v)
      [] value.t = "boolean" -> IF value.v THEN "true" ELSE "false"

\* A parsed filter written as a clause of the grammar.
ClauseOf(param) ==
    param.field \o OperatorSymbol(param.operator) \o ValueText(param.value)

RECURSIVE ClausesOf(_)
ClausesOf(params) ==
    IF params = <<>> THEN <<>>
    ELSE <<ClauseOf(Head(params))>> \o ClausesOf(Tail(params))

Serialize(params) == JoinClauses(ClausesOf(params))

Numeral(text) == text # "" /\ IndexFrom(text, 1, DigitSet, FALSE) > Len(text)
Rewritten(clause) ==
    \E k \in 1..Len(clause) :
        /\ Char(clause, k) \in OperatorChars
        /\ Numeral(SubSeq(clause, k + 1, Len(clause)))
        /\ Len(clause) > k + 1
        /\ Char(clause, k + 1) = "0"

C21_NumeralRewritten ==
    \E i \in DOMAIN trace :
        /\ ExprAt(i) = "codigo=007"
        /\ Serialize(trace[i].params) = "codigo=7"

----------------------------------------------------------------------------
(* Properties of the analytics calculators (checked on SpecAnalytics).      *)

\* The analysis type of the k-th iteration and the value it pushed.
KindAt(k) == Split(trace[k].command, ":")[3]
ReportAt(k) == results[trace[k].slot].result[1]

\* The k-th iteration ran the calculator of this kind to its aggregate.
Reported(k, kind) ==
    /\ KindAt(k) = kind
    /\ trace[k].pushed = 1
    /\ "error" \notin DOMAIN ReportAt(k).v

\* The month parameter of the k-th iteration (null without one).
MonthAsked(k) == MonthParam(trace[k].params, Null)

\* The records of the k-th iteration that benefit-status was asked about.
AskedRecords(k) ==
    LET Asked(benefit) ==
            MonthAsked(k).t = "null" \/ InMonth(benefit, MonthAsked(k).v)
    IN  SelectSeq(trace[k].records, Asked)

\* The buckets of a benefit-status report that list the user.
BucketsOf(report, id) ==
    LET Lists(users) == \E i \in DOMAIN users : users[i].id = id
    IN  (IF Lists(report.usersWithPendingBenefits) THEN {"pending"} ELSE {})
        \cup (IF Lists(report.usersWithUsedBenefits) THEN {"used"} ELSE {})
        \cup (IF Lists(report.usersWithNotSelectedBenefits) THEN {"notSelected"} ELSE {})

\* The buckets the status of a record stands for.
BucketsFor(benefit) ==
    {StatusBucket(Either(Prop(benefit, "Estado"), JsStr("Desconocido")))} \ {""}

UserIds == {"u1", "u2"}

HasDate(benefit) == Truthy(parseDate(Prop(benefit, "Fecha_de_eleccion")))

\* Record a is older than b when a record without a readable date is older
\* than every dated one.
OlderUndatedFirst(a, b) ==
    \/ ~HasDate(a) /\ HasDate(b)
    \/ HasDate(a) /\ HasDate(b)
       /\ parseDate(a.Fecha_de_eleccion).time < parseDate(b.Fecha_de_eleccion).time

C25_EveryUserInOneBucket ==
    \A k \in DOMAIN trace : Reported(k, "benefit-status") =>
        LET report == ReportAt(k).v
        IN  /\ report.pendingCount + report.usedCount + report.notSelectedCount
               = report.totalUsers
            /\ \A id \in UserIds : Cardinality(BucketsOf(report, id)) <= 1

\* A report that counts a user listed in no bucket.
C25_UserInNoBucket ==
    \E k \in DOMAIN trace :
        /\ Reported(k, "benefit-status")
        /\ LET report == ReportAt(k).v
           IN  report.pendingCount + report.usedCount + report.notSelectedCount
               < report.totalUsers

\* The month of the day the k-th iteration ran on.
CurrentMonth(k) == MonthAt(getMonth(trace[k].currentDate))

\* The users that have a named record in the month.
UsersIn(records, month) ==
    {id \in UserIds :
        \E i \in DOMAIN records :
            /\ StrictEq(Prop(records[i], "Id_usuario"), JsStr(id))
            /\ Truthy(Prop(records[i], "Nombre"))
            /\ InMonth(records[i], month)}

\* C26: a benefit-status, active-users or investment command without a
\* month parameter reports on the current month.
C26_DefaultsToCurrentMonth ==
    \A k \in DOMAIN trace :
        MonthAsked(k).t = "null" =>
            /\ Reported(k, "active-users") => ReportAt(k).v.month = CurrentMonth(k)
            /\ Reported(k, "investment") => ReportAt(k).v.month = CurrentMonth(k)
            /\ Reported(k, "benefit-status") =>
                  ReportAt(k).v.totalUsers
                  = Cardinality(UsersIn(trace[k].records, CurrentMonth(k)))

\* A benefit-status report without a month parameter that counts a user
\* who has no record in the current month.
C26_BenefitStatusOverAllMonths ==
    \E k \in DOMAIN trace :
        /\ MonthAsked(k).t = "null"
        /\ Reported(k, "benefit-status")
        /\ ReportAt(k).v.totalUsers
           > Cardinality(UsersIn(trace[k].records, CurrentMonth(k)))

\* Active-users and investment do report on the current month.
C26_ActiveUsersAndInvestmentDefault ==
    \A k \in DOMAIN trace :
        MonthAsked(k).t = "null" =>
            /\ Reported(k, "active-users") => ReportAt(k).v.month = CurrentMonth(k)
            /\ Reported(k, "investment") => ReportAt(k).v.month = CurrentMonth(k)

\* A number that is neither NaN nor an infinity.
Finite(x) == x.t = "number"

\* The percentage and rate fields of a report.
RateFields(kind, report) ==
    CASE kind = "month-progress" -> {JsNum(report.progress)}
      [] kind = "redemption-rate" -> {report.redemptionRate, report.dailyRate}
      [] kind = "historical-rate" ->
            {report.globalRate}
            \cup UNION {{report.monthlyRates[i].redemptionRate,
                         report.monthlyRates[i].pendingRate,
                         report.monthlyRates[i].notSelectedRate} :
                            i \in DOMAIN report.monthlyRates}
            \cup (IF report.comparisonWithDecember.t = "null" THEN {}
                  ELSE LET comparison == report.comparisonWithDecember.v
                       IN  {comparison.decemberRate, comparison.otherMonthsRate,
                            comparison.difference, comparison.percentageDifference})
      [] kind = "active-users" ->
            {report.byGender[i].percentage : i \in DOMAIN report.byGender}
            \cup {report.byGeneration[i].percentage : i \in DOMAIN report.byGeneration}
      [] kind = "investment" ->
            {report.investmentByCategory[i].percentage :
                i \in DOMAIN report.investmentByCategory}
      [] OTHER -> {}

RateKinds ==
    {"month-progress", "redemption-rate", "historical-rate", "active-users",
     "investment"}

\* C22: every percentage or rate of every report is a finite number, and is
\* 0 when its denominator is: the redemption rates of a month without
\* records, the share of a category when the total investment is 0.
C22_RatesFiniteAndZeroGuarded ==
    \A k \in DOMAIN trace : \A kind \in RateKinds : Reported(k, kind) =>
        LET report == ReportAt(k).v
        IN  /\ \A rate \in RateFields(kind, report) : Finite(rate)
            /\ kind = "redemption-rate" /\ report.totalBenefits = 0
                  => report.redemptionRate.v = 0 /\ report.dailyRate.v = 0
            /\ kind = "investment" /\ report.totalInvestment = JsNum(0)
                  => \A i \in DOMAIN report.investmentByCategory :
                        report.investmentByCategory[i].percentage.v = 0

\* An investment report whose total is 0 and whose category share is NaN.
C22_ShareOfZeroTotalIsNaN ==
    \E k \in DOMAIN trace :
        /\ Reported(k, "investment")
        /\ ReportAt(k).v.totalInvestment = JsNum(0)
        /\ \E i \in DOMAIN ReportAt(k).v.investmentByCategory :
              ReportAt(k).v.investmentByCategory[i].percentage = NaN

\* A historical report whose comparison divides by a rate of 0.
C22_DifferenceOverZeroRate ==
    \E k \in DOMAIN trace :
        /\ Reported(k, "historical-rate")
        /\ ReportAt(k).v.comparisonWithDecember.t # "null"
        /\ ReportAt(k).v.comparisonWithDecember.v.otherMonthsRate.v = 0
        /\ ~Finite(ReportAt(k).v.comparisonWithDecember.v.percentageDifference)

\* The rates that are guarded in the code are finite.
C22_GuardedRatesFinite ==
    \A k \in DOMAIN trace :
        /\ Reported(k, "redemption-rate") =>
              \A rate \in RateFields("redemption-rate", ReportAt(k).v) : Finite(rate)
        /\ Reported(k, "historical-rate") =>
              /\ Finite(ReportAt(k).v.globalRate)
              /\ \A i \in DOMAIN ReportAt(k).v.monthlyRates :
                    Finite(ReportAt(k).v.monthlyRates[i].redemptionRate)

\* No path of the store holds data.
EmptySnapshot == \A i \in DOMAIN FetchPaths : ~SnapshotExists(FetchPaths[i])

\* C23: on a store without records every analytics command gets a result
\* value from its calculator (for a calculator that fetches, the object
\* that carries the error text), and no exception leaves the calculator.
C23_EmptySnapshotYieldsResult ==
    \A k \in DOMAIN trace :
        EmptySnapshot /\ KindAt(k) \in AnalyticsKinds =>
            /\ trace[k].caught = "none"
            /\ trace[k].pushed = 1
            /\ results[trace[k].slot].error = Absent
            /\ results[trace[k].slot].result # Absent
            /\ ReportAt(k).t = "object"
            /\ KindAt(k) # "month-progress" => "error" \in DOMAIN ReportAt(k).v

\* An investment command answered on a store without records, no store
\* call having failed.
C23_InvestmentOnEmptySnapshot ==
    \E k \in DOMAIN trace :
        /\ EmptySnapshot
        /\ KindAt(k) = "investment"
        /\ ~trace[k].storeThrew
        /\ ReportAt(k) = JsObj([error |-> ErrorPrefix("investment") \o NoDataMessage])

====
